---- MODULE Spec2Model ----
(***************************************************************************)
(* A model of karrick/gorill's concurrent I/O decorators:                  *)
(*   - the timeout decorators TimedWriteCloser / TimedReadCloser and the   *)
(*     SpooledWriteCloser (one background worker, a depth-1 jobs channel), *)
(*   - the reference-counted writeCloseDuper,                              *)
(*   - the fan-out MultiWriteCloser (non-locking and locking).             *)
(* Each component has its own specification over the shared variables.     *)
(***************************************************************************)
EXTENDS Integers, Sequences, FiniteSets, TLC

\* ------------------------------------------------------------------------
\* Bounds of the model
\* ------------------------------------------------------------------------
\* Read/Write calls issued on one decorator instance by concurrent callers.
MaxCalls == 2

\* Read/Write calls issued on one decorator instance by a single caller.
MaxSeqCalls == 3

\* Explicit Flush calls issued on one SpooledWriteCloser.
MaxFlushes == 1

\* Handles one writeCloseDuper group issues.
MaxHandles == 3

\* Write calls on the handles of one writeCloseDuper group.
MaxDupWrites == 2

\* Calls on one NonLockingMultiWriteCloser.
MaxFanOps == 3

\* Calls on one LockingMultiWriteCloser.
MaxLockFanOps == 3

\* Setters passed to one NewSpooledWriteCloser call.
MaxSetters == 2

\* Calls on one LockingWriter or LockingWriteCloser.
MaxLwOps == 3

\* Largest limit given to ShortWriter.
MaxShortMax == 3

\* Longest data slice written to a ShortWriter.
MaxShortLen == 4

\* ------------------------------------------------------------------------
\* Decorator state (TimedWriteCloser, TimedReadCloser, SpooledWriteCloser)
\* ------------------------------------------------------------------------
VARIABLES
    kind,        \* which decorator the instance is: "timedW", "timedR", "spooled"
    mode,        \* how the instance is used: "conc" (concurrent callers) or "seq"
    inst,        \* "none" before construction, "live", "panic", "cfgerr"
    timeout,     \* the instance's timeout field
    bufferSize,  \* the instance's bufferSize field
    halted,      \* the instance's halted field
    jobs,        \* the buffered jobs channel (capacity JobsCap)
    jobsClosed,  \* close(jobs) has happened
    jobsDone,    \* the jobsDone wait group's counter
    workerPc,    \* the background goroutine's position
    workerJob,   \* the job the worker is executing
    workerRes,   \* the result the worker is publishing (unbuffered channel)
    results,     \* per call, its private buffered results channel
    callPc,      \* per caller goroutine: "idle", "send", "select", "panic"
    callId,      \* per caller goroutine, the id of the call it is in
    timerFired,  \* per caller goroutine, time.After(timeout) has fired
    nextId,      \* id of the next call
    outcome,     \* per call, what it returned
    produced,    \* per call, what the worker obtained for its job
    servedBy,    \* per call, the job whose result the call returned, or 0
    closePc,     \* the goroutine calling Close
    closeErr1,   \* Close's err1 (the final flush)
    closeRet,    \* what Close returned
    closeErr2,   \* Close's err2 (what the underlying endpoint's Close answered)
    underCloses, \* number of Close calls the underlying endpoint has received
    underIO,     \* number of underlying Read/Write calls started by the worker
    buf,         \* bytes held by the bufio.Writer
    bwErr,       \* the bufio.Writer's sticky error
    bwLock,      \* holder of bwLock: "none", "worker", "flusher", "closer"
    underOut,    \* bytes the underlying endpoint has received
    okData,      \* data of the Writes that returned success, in order
    flushPc,     \* the goroutine calling Flush: "idle", "lock", "io"
    flushN       \* number of explicit Flush calls begun

\* ------------------------------------------------------------------------
\* writeCloseDuper state
\* ------------------------------------------------------------------------
VARIABLES
    dIssued,     \* the handles NewWriteCloseDuper and Dup have returned
    dDone,       \* per handle, the counter of its done wait group
    dClosed,     \* per handle, Close has been called on it
    dWatch,      \* per handle, its goroutine: "none", "wait", "done"
    pDone,       \* the counter of the group's wait group (*pDone)
    dGroupPc,    \* the group's goroutine: "wait", "closed"
    dUnderCloses,\* number of Close calls the underlying endpoint has received
    dMisuse,     \* Dup was called on a handle already closed
    dMode,       \* what the group's clients do: "handles" (they Dup and Close
                 \* up to MaxHandles handles), "writes" (two handles, written to),
                 \* "write" (two handles, one Write)
    dLock,       \* the handle holding *pLock, or 0
    dWpc,        \* per handle, its Write call: "idle", "lock", "loop"
    dCall,       \* per handle, the number of its Write call
    dWritten,    \* per handle, the written count of its Write call
    dWerr,       \* per handle, the err of its Write call
    dRet,        \* per handle, what its last Write call returned
    dOut,        \* the Writes the underlying endpoint received, in order:
                 \* the call each comes from, the offset of its slice
                 \* data[off:], the count and the error it answered
    dWrites,     \* number of Write calls begun
    dLateCall,   \* a Write call began on a handle already closed
    dLateWrite   \* the underlying endpoint received a Write after its Close

\* ------------------------------------------------------------------------
\* MultiWriteCloser state
\* ------------------------------------------------------------------------
VARIABLES
    fanLocking,  \* the instance is a LockingMultiWriteCloser
    writers,     \* the writers map's keys
    iows,        \* the iows slice
    lockW,       \* the thread holding the RWMutex exclusively, or "none"
    lockR,       \* the threads holding the RWMutex shared
    fpc,         \* per thread: "idle", "in", "writing", "evict"
    fop,         \* per thread, the call it is in
    fsnap,       \* per thread, the slice its Write ranges over
    fpending,    \* per thread, the endpoints its Write has yet to write to
    ferrored,    \* per thread, its Write's errored slice
    ffailed,     \* per thread, the members that answered its Write with an
                 \* error or with a count other than len(data)
    fcloses0,    \* per thread, the endpoints' close counts when its call began
    fwrites,     \* per thread and endpoint, the writes its call issued so far
    fanLast,     \* the call that returned last, while no call has begun since
    fanOps,      \* number of calls begun
    epCloses     \* per endpoint, the number of Closes it has received

\* ------------------------------------------------------------------------
\* State of one call of NewSpooledWriteCloser with its setters
\* ------------------------------------------------------------------------
VARIABLES
    ctorPc,      \* "none", "new" (called), "done" (returned)
    ctorOpts,    \* the setters the client passes, in order
    ctorRes      \* what the call returned and what it started

\* ------------------------------------------------------------------------
\* State of one LockingWriter or LockingWriteCloser
\* ------------------------------------------------------------------------
VARIABLES
    lwKind,      \* "none", "writer" (LockingWriter), "writeCloser"
    lwLock,      \* the goroutine that holds the field lock, or "none"
    lwPc,        \* per goroutine: "idle", "lock", "io" (in the endpoint), "unlock"
    lwOp,        \* per goroutine: the method it is in, "Write", "Close" or "none"
    lwRet,       \* per goroutine: what the endpoint answered to its call
    lwOps        \* calls begun so far

\* ------------------------------------------------------------------------
\* State of one Write on a ShortWriter
\* ------------------------------------------------------------------------
VARIABLES
    swPc,        \* "none", "call" (Write called), "done" (returned)
    swArgs,      \* the limit max, len(data) and how the wrapped writer behaves
    swRes        \* what the wrapped writer was handed and what Write returned

cfgVars == <<kind, mode, inst, timeout, bufferSize>>
chanVars == <<jobs, jobsClosed, jobsDone>>
workerVars == <<workerPc, workerJob, workerRes>>
callVars == <<callPc, callId, timerFired, nextId>>
histVars == <<outcome, produced, servedBy>>
closeVars == <<closePc, halted, closeErr1, closeRet, closeErr2, underCloses>>
bufVars == <<buf, bwErr, bwLock, underOut>>
flushVars == <<flushPc, flushN>>

decoVars == <<cfgVars, chanVars, workerVars, callVars, histVars, closeVars,
              bufVars, flushVars, results, underIO, okData>>

dupGroupVars == <<dIssued, dDone, dClosed, dWatch, pDone, dGroupPc,
                  dUnderCloses, dMisuse, dMode>>

dupWriteVars == <<dLock, dWpc, dCall, dWritten, dWerr, dRet, dOut, dWrites, dLateCall,
                  dLateWrite>>

duperVars == <<dupGroupVars, dupWriteVars>>

fanVars == <<fanLocking, writers, iows, lockW, lockR, fpc, fop, fsnap, fpending,
             ferrored, ffailed, fcloses0, fwrites, fanLast, fanOps, epCloses>>

ctorVars == <<ctorPc, ctorOpts, ctorRes>>

lockVars == <<lwKind, lwLock, lwPc, lwOp, lwRet, lwOps>>

shortVars == <<swPc, swArgs, swRes>>

utilVars == <<ctorVars, lockVars, shortVars>>

vars == <<decoVars, duperVars, fanVars, utilVars>>

\* What a decorator's step leaves alone.
otherVars == <<duperVars, fanVars, utilVars>>

\* The goroutines that call Read/Write on the instance.
Callers == {"c1", "c2"}

\* The one caller of the sequential mode.
SeqCaller == "c1"

CallLimit == IF mode = "seq" THEN MaxSeqCalls ELSE MaxCalls

CallIds == 1..(IF MaxCalls > MaxSeqCalls THEN MaxCalls ELSE MaxSeqCalls)

\* Timeouts a client may pass to NewTimedWriteCloser / NewTimedReadCloser.
Timeouts == {-1, 0, 1, 2}

\* Buffer sizes a client may pass with BufSize.
BufSizes == {0, 2}

\* Lengths of the data slice of a call.
DataLens == IF kind = "spooled" THEN {1, 2, 3} ELSE {2}

\* make(chan writeJob, 1)
JobsCap == 1

\* make(chan writeResult, 1)
ResultsCap == 1

TimedKinds == {"timedW", "timedR"}

Kinds == TimedKinds \cup {"spooled"}

\* error values
NilErr == [tag |-> "nil", d |-> 0]
EIO == [tag |-> "EIO", d |-> 0]
ECLOSE == [tag |-> "ECLOSE", d |-> 0]
ErrShortWrite == [tag |-> "ErrShortWrite", d |-> 0]
ErrTimeout(d) == [tag |-> "ErrTimeout", d |-> d]
ErrWriteAfterClose == [tag |-> "ErrWriteAfterClose", d |-> 0]
ErrReadAfterClose == [tag |-> "ErrReadAfterClose", d |-> 0]

ErrAfterClose(k) == IF k = "timedR" THEN ErrReadAfterClose ELSE ErrWriteAfterClose

Result(n, err) == [n |-> n, err |-> err]

NoResult == [n |-> -1, err |-> NilErr]

\* What the underlying endpoint may answer to a Read/Write of len bytes.
UnderResults(len) == {Result(len, NilErr), Result(len - 1, EIO)}

\* What the underlying endpoint's Close may return.
CloseResults == {NilErr, ECLOSE}

\* The data slice of call id: len bytes that name the call.
DataOf(id, len) == [k \in 1..len |-> id]

NoJob == [id |-> 0, data |-> <<>>]

NoOutcome == [via |-> "none", res |-> NoResult, fired |-> FALSE]

\* A call's outcome: how it ended ("result", "timeout", "afterclose",
\* "panic"), what it returned, and whether its timer had fired by then.
Outcome(via, res, fired) == [via |-> via, res |-> res, fired |-> fired]

\* ------------------------------------------------------------------------
\* The bufio.Writer the SpooledWriteCloser writes through
\* ------------------------------------------------------------------------
\* How the underlying endpoint answers one Write: everything, nothing and an
\* error, or a part and no error.
Behs == {"ok", "err", "short"}

BehSeqs == {<<a>> : a \in Behs} \cup {<<a, b>> : a \in Behs, b \in Behs}

BehHead(behs) == IF behs = <<>> THEN "ok" ELSE Head(behs)

BehTail(behs) == IF behs = <<>> THEN <<>> ELSE Tail(behs)

\* One Write of p on the underlying endpoint whose received bytes are out.
UnderWrite(out, p, beh) ==
    LET n == CASE beh = "ok" -> Len(p)
               [] beh = "err" -> 0
               [] OTHER -> IF Len(p) >= 2 THEN Len(p) - 1 ELSE Len(p)
        e == IF beh = "err" THEN EIO ELSE NilErr
    IN [n |-> n, err |-> e, out |-> out \o SubSeq(p, 1, n)]

Bw(b, e, o) == [buf |-> b, err |-> e, out |-> o]

\* bufio.Writer.Flush; calls counts the writes it issued to the endpoint.
BwFlush(b, beh) ==
    IF b.err # NilErr THEN [b |-> b, err |-> b.err, calls |-> 0]
    ELSE IF b.buf = <<>> THEN [b |-> b, err |-> NilErr, calls |-> 0]
    ELSE LET w == UnderWrite(b.out, b.buf, beh)
             e == IF w.n < Len(b.buf) /\ w.err = NilErr THEN ErrShortWrite ELSE w.err
         IN IF e # NilErr
              THEN [b |-> Bw(SubSeq(b.buf, w.n + 1, Len(b.buf)), e, w.out), err |-> e,
                    calls |-> 1]
              ELSE [b |-> Bw(<<>>, NilErr, w.out), err |-> NilErr, calls |-> 1]

\* A faulty Fits: the buffer takes whatever it is given.
Fits_Always(p, b, size) == TRUE

\* len(p) <= b.Available(): p fits into what is free of the buffer.
Fits(p, b, size) == Len(p) <= size - Len(b.buf)

\* bufio.Writer.Write of p on a buffer of size bufferSize, nn bytes taken so
\* far; calls counts the writes it issued to the endpoint.
RECURSIVE BwWrite(_, _, _, _, _)
BwWrite(b, p, nn, size, behs) ==
    IF ~Fits(p, b, size) /\ b.err = NilErr
      THEN IF b.buf = <<>>
             THEN LET w == UnderWrite(b.out, p, BehHead(behs))
                      r == BwWrite(Bw(b.buf, w.err, w.out), SubSeq(p, w.n + 1, Len(p)),
                                   nn + w.n, size, BehTail(behs))
                  IN [r EXCEPT !.calls = @ + 1]
             ELSE LET n == size - Len(b.buf)
                      f == BwFlush(Bw(b.buf \o SubSeq(p, 1, n), b.err, b.out),
                                   BehHead(behs))
                      r == BwWrite(f.b, SubSeq(p, n + 1, Len(p)), nn + n, size,
                                   BehTail(behs))
                  IN [r EXCEPT !.calls = @ + f.calls]
      ELSE IF b.err # NilErr
             THEN [b |-> b, res |-> Result(nn, b.err), calls |-> 0]
             ELSE [b |-> Bw(b.buf \o p, b.err, b.out), res |-> Result(nn + Len(p), NilErr),
                   calls |-> 0]

CurBw == Bw(buf, bwErr, underOut)

\* ------------------------------------------------------------------------
\* writeCloseDuper
\* ------------------------------------------------------------------------
Handles == 1..MaxHandles

\* The handle NewWriteCloseDuper returns.
FirstHandle == 1

\* Length of the data slice of a handle's Write call.
DupDataLen == 2

NoRet == [n |-> -1, err |-> NilErr]

DupModes == {"handles", "writes"}

\* The uses under which the scheduling of the goroutines is looked at.
DupFairModes == {"handles", "write"}

\* Handles the clients of this group take.
DupHandleLimit == IF dMode \in {"writes", "write"} THEN 2 ELSE MaxHandles

\* Write calls the clients of this group make.
DupWriteLimit ==
    IF dMode = "writes" THEN MaxDupWrites ELSE IF dMode = "write" THEN 1 ELSE 0

\* No writeCloseDuper has been made.
DuperOff ==
    /\ dIssued = {}
    /\ dDone = [h \in Handles |-> 0]
    /\ dClosed = [h \in Handles |-> FALSE]
    /\ dWatch = [h \in Handles |-> "none"]
    /\ pDone = 0
    /\ dGroupPc = "none"
    /\ dUnderCloses = 0
    /\ dMisuse = FALSE
    /\ dMode = "none"
    /\ dLock = 0
    /\ dWpc = [h \in Handles |-> "idle"]
    /\ dCall = [h \in Handles |-> 0]
    /\ dWritten = [h \in Handles |-> 0]
    /\ dWerr = [h \in Handles |-> NilErr]
    /\ dRet = [h \in Handles |-> NoRet]
    /\ dOut = <<>>
    /\ dWrites = 0
    /\ dLateCall = FALSE
    /\ dLateWrite = FALSE

\* NewWriteCloseDuper: prime.Dup() makes the first handle (pDone.Add(1),
\* done.Add(1), its goroutine), then the group's goroutine starts.
NewWriteCloseDuper ==
    /\ dIssued = {FirstHandle}
    /\ dDone = [h \in Handles |-> IF h = FirstHandle THEN 1 ELSE 0]
    /\ dClosed = [h \in Handles |-> FALSE]
    /\ dWatch = [h \in Handles |-> IF h = FirstHandle THEN "wait" ELSE "none"]
    /\ pDone = 1
    /\ dGroupPc = "wait"
    /\ dUnderCloses = 0
    /\ dMisuse = FALSE
    /\ dMode \in DupModes \cup DupFairModes
    /\ dLock = 0
    /\ dWpc = [h \in Handles |-> "idle"]
    /\ dCall = [h \in Handles |-> 0]
    /\ dWritten = [h \in Handles |-> 0]
    /\ dWerr = [h \in Handles |-> NilErr]
    /\ dRet = [h \in Handles |-> NoRet]
    /\ dOut = <<>>
    /\ dWrites = 0
    /\ dLateCall = FALSE
    /\ dLateWrite = FALSE

\* d.pDone.Add(1) without the Add.
PDoneAdd_Forgotten(n) == n

\* d.pDone.Add(1)
PDoneAdd(n) == n + 1

\* dm.Dup(): a new handle d sharing iowc, pLock and pDone; pDone.Add(1),
\* d.done.Add(1), and d's goroutine waits on d.done.
Dup(dm) ==
    /\ dm \in dIssued
    /\ Cardinality(dIssued) < DupHandleLimit
    /\ LET d == Cardinality(dIssued) + 1
       IN /\ dIssued' = dIssued \cup {d}
          /\ pDone' = PDoneAdd(pDone)
          /\ dDone' = [dDone EXCEPT ![d] = 1]
          /\ dWatch' = [dWatch EXCEPT ![d] = "wait"]
    /\ dMisuse' = (dMisuse \/ dClosed[dm])
    /\ UNCHANGED <<decoVars, utilVars, fanVars, dClosed, dGroupPc, dUnderCloses, dMode,
                   dupWriteVars>>

\* dm.Close(): dm.done.Done().  A second Close of one handle makes the wait
\* group's counter negative, which panics; the client calls it once.
DupClose(dm) ==
    /\ dm \in dIssued
    /\ ~dClosed[dm]
    /\ dDone' = [dDone EXCEPT ![dm] = dDone[dm] - 1]
    /\ dClosed' = [dClosed EXCEPT ![dm] = TRUE]
    /\ UNCHANGED <<decoVars, utilVars, fanVars, dIssued, dWatch, pDone, dGroupPc,
                   dUnderCloses, dMisuse, dMode, dupWriteVars>>

\* d.pDone.Done() without the Done.
PDoneDone_Forgotten(n) == n

\* d.pDone.Done()
PDoneDone(n) == n - 1

\* The handle's goroutine: d.done.Wait() returns, d.pDone.Done().
DupWatch(d) ==
    /\ dWatch[d] = "wait"
    /\ dDone[d] = 0
    /\ dWatch' = [dWatch EXCEPT ![d] = "done"]
    /\ pDone' = PDoneDone(pDone)
    /\ UNCHANGED <<decoVars, utilVars, fanVars, dIssued, dDone, dClosed, dGroupPc,
                   dUnderCloses, dMisuse, dMode, dupWriteVars>>

\* The group's goroutine: done.Wait() returns, iowc.Close().
GroupClose ==
    /\ dGroupPc = "wait"
    /\ pDone = 0
    /\ dGroupPc' = "closed"
    /\ dUnderCloses' = dUnderCloses + 1
    /\ UNCHANGED <<decoVars, utilVars, fanVars, dIssued, dDone, dClosed, dWatch, pDone,
                   dMisuse, dMode, dupWriteVars>>

\* dm.Write(data) is called and waits for pLock.
DupWriteBegin(dm) ==
    /\ dm \in dIssued
    /\ dWpc[dm] = "idle"
    /\ dWrites < DupWriteLimit
    /\ dWrites' = dWrites + 1
    /\ dCall' = [dCall EXCEPT ![dm] = dWrites + 1]
    /\ dWpc' = [dWpc EXCEPT ![dm] = "lock"]
    /\ dRet' = [dRet EXCEPT ![dm] = NoRet]
    /\ dLateCall' = (dLateCall \/ dClosed[dm])
    /\ UNCHANGED <<decoVars, utilVars, fanVars, dupGroupVars, dLock, dWritten, dWerr,
                   dOut, dLateWrite>>

\* A faulty PLockFree: Lock never waits.
PLockFree_Always == TRUE

\* dm.pLock.Lock() goes on when no handle holds the mutex.
PLockFree == dLock = 0

\* dm.pLock.Lock()
DupWriteLock(dm) ==
    /\ dWpc[dm] = "lock"
    /\ PLockFree
    /\ dLock' = dm
    /\ dWpc' = [dWpc EXCEPT ![dm] = "loop"]
    /\ UNCHANGED <<decoVars, utilVars, fanVars, dupGroupVars, dCall, dWritten, dWerr,
                   dRet, dOut, dWrites, dLateCall, dLateWrite>>

\* What the underlying endpoint may answer to a Write of len bytes:
\* everything, one byte and no error, nothing and an error, or one byte and
\* an error when it was handed more.
DupUnderResults(len) ==
    {Result(len, NilErr), Result(1, NilErr), Result(0, EIO)}
    \cup (IF len > 1 THEN {Result(1, EIO)} ELSE {})

\* A faulty Suffix: the loop hands the whole slice to every write.
Suffix_Whole(written) == 0

\* data[written:]: the offset in data of the slice the loop hands on.
Suffix(written) == written

\* One turn of the loop: m, err = dm.iowc.Write(data[written:]); written += m.
DupWriteLoop(dm, r) ==
    /\ dWpc[dm] = "loop"
    /\ dWritten[dm] < DupDataLen
    /\ dWerr[dm] = NilErr
    /\ r \in DupUnderResults(DupDataLen - Suffix(dWritten[dm]))
    /\ dOut' = Append(dOut, [call |-> dCall[dm], off |-> Suffix(dWritten[dm]),
                              n |-> r.n, err |-> r.err])
    /\ dWritten' = [dWritten EXCEPT ![dm] = dWritten[dm] + r.n]
    /\ dWerr' = [dWerr EXCEPT ![dm] = r.err]
    /\ dLateWrite' = (dLateWrite \/ dGroupPc = "closed")
    /\ UNCHANGED <<decoVars, utilVars, fanVars, dupGroupVars, dLock, dWpc, dCall, dRet,
                   dWrites, dLateCall>>

\* The loop ends: dm.pLock.Unlock(); return written, err.
DupWriteReturn(dm) ==
    /\ dWpc[dm] = "loop"
    /\ ~(dWritten[dm] < DupDataLen /\ dWerr[dm] = NilErr)
    /\ dLock' = 0
    /\ dRet' = [dRet EXCEPT ![dm] = Result(dWritten[dm], dWerr[dm])]
    /\ dWpc' = [dWpc EXCEPT ![dm] = "idle"]
    /\ dCall' = [dCall EXCEPT ![dm] = 0]
    /\ dWritten' = [dWritten EXCEPT ![dm] = 0]
    /\ dWerr' = [dWerr EXCEPT ![dm] = NilErr]
    /\ UNCHANGED <<decoVars, utilVars, fanVars, dupGroupVars, dOut, dWrites, dLateCall,
                   dLateWrite>>

NextDuper ==
    \/ \E dm \in Handles : Dup(dm)
    \/ \E dm \in Handles : DupClose(dm)
    \/ \E d \in Handles : DupWatch(d)
    \/ GroupClose
    \/ \E dm \in Handles : DupWriteBegin(dm)
    \/ \E dm \in Handles : DupWriteLock(dm)
    \/ \E dm \in Handles, r \in UNION {DupUnderResults(n) : n \in 1..DupDataLen} :
           DupWriteLoop(dm, r)
    \/ \E dm \in Handles : DupWriteReturn(dm)

\* ------------------------------------------------------------------------
\* MultiWriteCloser: NonLockingMultiWriteCloser and LockingMultiWriteCloser
\* ------------------------------------------------------------------------
\* The io.WriteClosers a client may hand to the MultiWriteCloser.
Endpoints == {"e1", "e2", "e3"}

\* The goroutines that call the MultiWriteCloser.
Threads == {"t1", "t2"}

\* The io.WriteClosers the client of this instance hands to it.
Members == IF fanLocking THEN {"e1", "e2"} ELSE Endpoints

\* A NonLockingMultiWriteCloser is called by one goroutine at a time.
FanCallers == IF fanLocking THEN Threads ELSE {"t1"}

\* Lengths of the data slice of a Write.
FanDataLens == {0, 2}

Range(s) == {s[k] : k \in 1..Len(s)}

\* The orders in which ranging over a map of the keys S may visit them.
Perms(S) ==
    {s \in [1..Cardinality(S) -> S] : \A a, b \in 1..Cardinality(S) : s[a] = s[b] => a = b}

WriteOps == {"Write", "WriteSeries"}

ExclusiveOps == {"Add", "Remove", "Close"}

NoOp == [op |-> "none", len |-> 0, w |-> "none"]

\* The calls a client may make.
FanCalls ==
    {[op |-> o, len |-> n, w |-> "none"] : o \in WriteOps, n \in FanDataLens}
    \cup {[op |-> o, len |-> 0, w |-> e] : o \in {"Add", "Remove"}, e \in Members}
    \cup {[op |-> o, len |-> 0, w |-> "none"] : o \in {"Close", "IsEmpty"}}

\* No write was issued to any endpoint.
NoWrites == [e \in Endpoints |-> <<>>]

NoLast == [op |-> "none", len |-> 0, w |-> "none", before |-> {}, snap |-> {},
           failed |-> {}, closes0 |-> <<>>, errored |-> {}, issued |-> NoWrites,
           ret |-> NoResult]

\* What a member endpoint may answer to a Write of len bytes: everything,
\* everything and an error, or one byte less and no error.
FanEpResults(len) ==
    {Result(len, NilErr), Result(len, EIO)}
    \cup (IF len > 0 THEN {Result(len - 1, NilErr)} ELSE {})

\* No MultiWriteCloser has been made.
FanOff ==
    /\ fanLocking = FALSE
    /\ writers = {}
    /\ iows = <<>>
    /\ lockW = "none"
    /\ lockR = {}
    /\ fpc = [t \in Threads |-> "idle"]
    /\ fop = [t \in Threads |-> NoOp]
    /\ fsnap = [t \in Threads |-> <<>>]
    /\ fpending = [t \in Threads |-> {}]
    /\ ferrored = [t \in Threads |-> <<>>]
    /\ ffailed = [t \in Threads |-> {}]
    /\ fcloses0 = [t \in Threads |-> [e \in Endpoints |-> 0]]
    /\ fwrites = [t \in Threads |-> NoWrites]
    /\ fanLast = NoLast
    /\ fanOps = 0
    /\ epCloses = [e \in Endpoints |-> 0]

\* A faulty Updated: update() appends to the slice it has, without making
\* a new one.
Updated_NotCleared(old, ws) == {old \o p : p \in Perms(ws)}

\* update(): the slices iows may be after it, given the slice old it was
\* and the keys ws of the map: a new slice, the keys appended in the order
\* ranging over the map visits them.
Updated(old, ws) == Perms(ws)

\* NewMultiWriteCloser(ws...): the map of the given writers, then update().
NewMultiWriteCloser(ws) ==
    /\ writers = ws
    /\ iows \in Updated(<<>>, ws)
    /\ lockW = "none"
    /\ lockR = {}
    /\ fpc = [t \in Threads |-> "idle"]
    /\ fop = [t \in Threads |-> NoOp]
    /\ fsnap = [t \in Threads |-> <<>>]
    /\ fpending = [t \in Threads |-> {}]
    /\ ferrored = [t \in Threads |-> <<>>]
    /\ ffailed = [t \in Threads |-> {}]
    /\ fcloses0 = [t \in Threads |-> [e \in Endpoints |-> 0]]
    /\ fwrites = [t \in Threads |-> NoWrites]
    /\ fanLast = NoLast
    /\ fanOps = 0
    /\ epCloses = [e \in Endpoints |-> 0]

\* A call begins.  On the locking variant it takes the lock first: Add,
\* Remove and Close take lmw.lock.Lock(); IsEmpty, Write and WriteSeries take
\* lmw.lock.RLock().
FanBegin(t, call) ==
    /\ t \in FanCallers
    /\ fpc[t] = "idle"
    /\ fanOps < (IF fanLocking THEN MaxLockFanOps ELSE MaxFanOps)
    /\ IF fanLocking
         THEN IF call.op \in ExclusiveOps
                THEN /\ lockW = "none"
                     /\ lockR = {}
                     /\ lockW' = t
                     /\ UNCHANGED lockR
                ELSE /\ lockW = "none"
                     /\ lockR' = lockR \cup {t}
                     /\ UNCHANGED lockW
         ELSE /\ \A u \in Threads : fpc[u] = "idle"
              /\ UNCHANGED <<lockW, lockR>>
    /\ fpc' = [fpc EXCEPT ![t] = "in"]
    /\ fop' = [fop EXCEPT ![t] = call]
    /\ fcloses0' = [fcloses0 EXCEPT ![t] = epCloses]
    /\ fanLast' = NoLast
    /\ fanOps' = fanOps + 1
    /\ UNCHANGED <<decoVars, utilVars, duperVars, fanLocking, writers, iows, fsnap, fpending,
                   ferrored, ffailed, fwrites, epCloses>>

\* defer Unlock() / defer RUnlock()
Unlocked(t) ==
    /\ lockW' = IF lockW = t THEN "none" ELSE lockW
    /\ lockR' = lockR \ {t}

\* The call of thread t returns ret, having ranged over the endpoints snap
\* of which failed answered with a failure.
FanReturnWith(t, ret, snap, failed) ==
    /\ Unlocked(t)
    /\ fanLast' = [op |-> fop[t].op, len |-> fop[t].len, w |-> fop[t].w,
                   before |-> writers, snap |-> snap,
                   failed |-> failed, closes0 |-> fcloses0[t],
                   errored |-> Range(ferrored[t]), issued |-> fwrites[t],
                   ret |-> ret]
    /\ fpc' = [fpc EXCEPT ![t] = "idle"]
    /\ fop' = [fop EXCEPT ![t] = NoOp]
    /\ fsnap' = [fsnap EXCEPT ![t] = <<>>]
    /\ fpending' = [fpending EXCEPT ![t] = {}]
    /\ ferrored' = [ferrored EXCEPT ![t] = <<>>]
    /\ ffailed' = [ffailed EXCEPT ![t] = {}]
    /\ fcloses0' = [fcloses0 EXCEPT ![t] = [e \in Endpoints |-> 0]]
    /\ fwrites' = [fwrites EXCEPT ![t] = NoWrites]

\* The call of thread t returns ret.
FanReturn(t, ret) == FanReturnWith(t, ret, Range(fsnap[t]), ffailed[t])

\* Add(w): nlmw.writers[w] = struct{}{}; nlmw.update()
FanAdd(t) ==
    /\ fpc[t] = "in"
    /\ fop[t].op = "Add"
    /\ writers' = writers \cup {fop[t].w}
    /\ iows' \in Updated(iows, writers')
    /\ FanReturn(t, NoResult)
    /\ UNCHANGED <<decoVars, utilVars, duperVars, fanLocking, fanOps, epCloses>>

\* A faulty Removed: the key stays in the map.
Removed_Kept(ws, w) == ws

\* delete(nlmw.writers, w): the keys of the map afterwards.
Removed(ws, w) == ws \ {w}

\* Remove(w): delete(nlmw.writers, w); nlmw.update()
FanRemove(t) ==
    /\ fpc[t] = "in"
    /\ fop[t].op = "Remove"
    /\ writers' = Removed(writers, fop[t].w)
    /\ iows' \in Updated(iows, writers')
    /\ FanReturn(t, NoResult)
    /\ UNCHANGED <<decoVars, utilVars, duperVars, fanLocking, fanOps, epCloses>>

\* The error a failing Close of the member e answers.
CloseErrOf(e) == [tag |-> "ECLOSE", d |-> 0, of |-> e]

\* ErrList.Append(err): a nil error is not kept.
ErrListAppend(list, err) == IF err = NilErr THEN list ELSE Append(list, err)

\* ErrList.Err(): nil when the list holds no error, the list otherwise.
ErrListErr(list) ==
    IF list = <<>> THEN NilErr ELSE [tag |-> "ErrList", d |-> 0, errs |-> list]

\* A faulty FanCloseTargets: the loop of Close ends at the first member
\* whose Close fails.
FanCloseTargets_StopAtFailure(s, failing) ==
    IF \E k \in 1..Len(s) : s[k] \in failing
      THEN SubSeq(s, 1, CHOOSE k \in 1..Len(s) :
                            s[k] \in failing /\ \A j \in 1..(k - 1) : s[j] \notin failing)
      ELSE s

\* for _, iowc := range nlmw.iows: the members Close is invoked on, in
\* order, when the Close of those in failing fails.
FanCloseTargets(s, failing) == s

\* var errors ErrList; errors.Append(iowc.Close()) for each member of s.
FanCloseErrors(s, failing) ==
    LET F[k \in 0..Len(s)] ==
            IF k = 0 THEN <<>>
            ELSE ErrListAppend(F[k - 1], IF s[k] \in failing THEN CloseErrOf(s[k])
                                                              ELSE NilErr)
    IN F[Len(s)]

\* Close(): Close on every writer of iows; return errors.Err().
FanClose(t, failing) ==
    /\ fpc[t] = "in"
    /\ fop[t].op = "Close"
    /\ failing \subseteq Range(iows)
    /\ LET closed == FanCloseTargets(iows, failing)
       IN /\ epCloses' = [e \in Endpoints |->
                              IF e \in Range(closed) THEN epCloses[e] + 1
                                                     ELSE epCloses[e]]
          /\ FanReturnWith(t, Result(0, ErrListErr(FanCloseErrors(closed, failing))),
                           Range(iows), failing)
    /\ UNCHANGED <<decoVars, utilVars, duperVars, fanLocking, writers, iows, fanOps>>

\* IsEmpty(): len(nlmw.iows) == 0
FanIsEmpty(t) ==
    /\ fpc[t] = "in"
    /\ fop[t].op = "IsEmpty"
    /\ FanReturn(t, Result(IF Len(iows) = 0 THEN 1 ELSE 0, NilErr))
    /\ UNCHANGED <<decoVars, utilVars, duperVars, fanLocking, writers, iows, fanOps,
                   epCloses>>

\* How Write classifies what a member answered, without the escalation of
\* a short count.
FanWriteErr_NoEscalation(r, len) == r.err

\* n, err := w.Write(data); if n != len(data) { err = io.ErrShortWrite }
FanWriteErr(r, len) == IF r.n # len THEN ErrShortWrite ELSE r.err

\* A faulty FanTargets: the loop starts at the second element.
FanTargets_SkipFirst(s) == IF s = <<>> THEN {} ELSE Range(Tail(s))

\* for _, sw := range nlmw.iows: the endpoints the loop over s visits.
FanTargets(s) == Range(s)

\* A faulty SeriesTargets: the loop of WriteSeries ends after the first
\* member.
SeriesTargets_FirstOnly(s) == IF s = <<>> THEN {} ELSE {Head(s)}

\* for _, w := range nlmw.iows in WriteSeries: the endpoints the loop over
\* s visits.
SeriesTargets(s) == Range(s)

\* Write / WriteSeries read nlmw.iows: the slice the call ranges over.
FanWriteStart(t) ==
    /\ fpc[t] = "in"
    /\ fop[t].op \in WriteOps
    /\ fpc' = [fpc EXCEPT ![t] = "writing"]
    /\ fsnap' = [fsnap EXCEPT ![t] = iows]
    /\ fpending' = [fpending EXCEPT ![t] =
                         IF fop[t].op = "WriteSeries" THEN SeriesTargets(iows)
                                                      ELSE FanTargets(iows)]
    /\ UNCHANGED <<decoVars, utilVars, duperVars, fanLocking, writers, iows, lockW, lockR,
                   fop, ferrored, ffailed, fcloses0, fwrites, fanLast, fanOps,
                   epCloses>>

\* The member WriteSeries writes to next: the first of the slice not yet
\* written to.  Write's goroutines run in any order.
IsNext(t, e) ==
    fop[t].op = "WriteSeries" =>
        \A k \in 1..Len(fsnap[t]) :
            fsnap[t][k] = e => \A j \in 1..(k - 1) : fsnap[t][j] \notin fpending[t]

\* One member's w.Write(data) answers r; a failed member is appended to
\* errored.
FanWriteEp(t, e, r) ==
    /\ fpc[t] = "writing"
    /\ e \in fpending[t]
    /\ IsNext(t, e)
    /\ r \in FanEpResults(fop[t].len)
    /\ ffailed' = [ffailed EXCEPT ![t] =
                       IF r.err # NilErr \/ r.n # fop[t].len
                         THEN ffailed[t] \cup {e} ELSE ffailed[t]]
    /\ fpending' = [fpending EXCEPT ![t] = fpending[t] \ {e}]
    /\ ferrored' = [ferrored EXCEPT ![t] =
                        IF FanWriteErr(r, fop[t].len) # NilErr
                          THEN Append(ferrored[t], e) ELSE ferrored[t]]
    /\ fwrites' = [fwrites EXCEPT ![t][e] =
                       Append(@, [len |-> fop[t].len, n |-> r.n])]
    /\ UNCHANGED <<decoVars, utilVars, duperVars, fanLocking, writers, iows, lockW, lockR,
                   fpc, fop, fsnap, fcloses0, fanLast, fanOps, epCloses>>

\* What Write returns when a member's error is handed on to the caller.
FanWriteRet_MemberError(t) ==
    Result(fop[t].len, IF ferrored[t] = <<>> THEN NilErr ELSE ErrShortWrite)

\* return len(data), nil
FanWriteRet(t) == Result(fop[t].len, NilErr)

\* A faulty Joined: wg.Wait() returns while writes are outstanding.
Joined_Always(pending) == TRUE

\* wg.Wait() returns (WriteSeries: the loop ends): no write of the call is
\* outstanding.
Joined(pending) == pending = {}

\* wg.Wait() returns (WriteSeries: the loop ends) and no member failed.
FanWriteDone(t) ==
    /\ fpc[t] = "writing"
    /\ Joined(fpending[t])
    /\ ferrored[t] = <<>>
    /\ FanReturn(t, FanWriteRet(t))
    /\ UNCHANGED <<decoVars, utilVars, duperVars, fanLocking, writers, iows, fanOps,
                   epCloses>>

\* wg.Wait() returns (WriteSeries: the loop ends) and len(errored) > 0.
FanWriteFailed(t) ==
    /\ fpc[t] = "writing"
    /\ Joined(fpending[t])
    /\ ferrored[t] # <<>>
    /\ fpc' = [fpc EXCEPT ![t] = "evict"]
    /\ UNCHANGED <<decoVars, utilVars, duperVars, fanLocking, writers, iows, lockW, lockR,
                   fop, fsnap, fpending, ferrored, ffailed, fcloses0, fwrites, fanLast,
                   fanOps, epCloses>>

\* for _, w := range errored { delete(nlmw.writers, w); w.Close() };
\* nlmw.update(); return len(data), nil
FanEvict(t) ==
    /\ fpc[t] = "evict"
    /\ writers' = writers \ Range(ferrored[t])
    /\ epCloses' = [e \in Endpoints |->
                        IF e \in Range(ferrored[t]) THEN epCloses[e] + 1
                                                   ELSE epCloses[e]]
    /\ iows' \in Updated(iows, writers')
    /\ FanReturn(t, FanWriteRet(t))
    /\ UNCHANGED <<decoVars, utilVars, duperVars, fanLocking, fanOps>>

NextFan ==
    \/ \E t \in Threads, call \in FanCalls : FanBegin(t, call)
    \/ \E t \in Threads : FanAdd(t)
    \/ \E t \in Threads : FanRemove(t)
    \/ \E t \in Threads, failing \in SUBSET Endpoints : FanClose(t, failing)
    \/ \E t \in Threads : FanIsEmpty(t)
    \/ \E t \in Threads : FanWriteStart(t)
    \/ \E t \in Threads, e \in Endpoints, r \in FanEpResults(2) \cup FanEpResults(0) :
           FanWriteEp(t, e, r)
    \/ \E t \in Threads : FanWriteDone(t)
    \/ \E t \in Threads : FanWriteFailed(t)
    \/ \E t \in Threads : FanEvict(t)

\* ------------------------------------------------------------------------
\* NewSpooledWriteCloser(iowc, setters...)
\* ------------------------------------------------------------------------
\* const DefaultBufSize = 4096
DefaultBufSize == 4096

\* const DefaultFlushPeriod = 15 * time.Second, in seconds
DefaultFlushPeriod == 15

\* The error a setter returns for a value it refuses.
ECONFIG == [tag |-> "ECONFIG", d |-> 0]

\* Values a client may pass to BufSize and to Flush.
SetterArgs == {-1, 0, 1, 2}

\* The setters a client may pass.
Setters == {[opt |-> o, v |-> v] : o \in {"BufSize", "Flush"}, v \in SetterArgs}

\* The lists of setters a client may pass.
SetterLists == UNION {[1..n -> Setters] : n \in 0..MaxSetters}

\* A faulty BadValue: the value 0 is let through.
BadValue_ZeroAllowed(v) == v < 0

\* if size <= 0 / if periodicity <= 0: the setter returns an error.
BadValue(v) == v <= 0

\* One setter applied to the instance under construction.
ApplySetter(w, st) ==
    IF BadValue(st.v) THEN [w EXCEPT !.err = ECONFIG]
    ELSE IF st.opt = "BufSize" THEN [w EXCEPT !.bufferSize = st.v]
    ELSE [w EXCEPT !.flushPeriod = st.v]

\* The instance with the defaults, before the setters run.
DefaultSpooled ==
    [err |-> NilErr, bufferSize |-> DefaultBufSize, flushPeriod |-> DefaultFlushPeriod,
     returned |-> FALSE, worker |-> FALSE]

\* NewSpooledWriteCloser: the setters run in order; the first error is
\* returned with no instance; else the bufio.Writer is made, the worker
\* started and the instance returned.
NewSpooledWith(opts) ==
    LET F[k \in 0..Len(opts)] ==
            IF k = 0 THEN DefaultSpooled
            ELSE IF F[k - 1].err # NilErr THEN F[k - 1]
            ELSE ApplySetter(F[k - 1], opts[k])
        w == F[Len(opts)]
    IN IF w.err # NilErr THEN w
       ELSE [w EXCEPT !.returned = TRUE, !.worker = TRUE]

NoCtorRes == [err |-> NilErr, bufferSize |-> 0, flushPeriod |-> 0,
              returned |-> FALSE, worker |-> FALSE]

\* NewSpooledWriteCloser has not been called with setters.
CtorOff ==
    /\ ctorPc = "none"
    /\ ctorOpts = <<>>
    /\ ctorRes = NoCtorRes

\* ------------------------------------------------------------------------
\* LockingWriter, LockingWriteCloser
\* ------------------------------------------------------------------------
\* The goroutines that call the LockingWriter or LockingWriteCloser.
LockCallers == {"g1", "g2", "g3"}

\* The methods of the instance: a LockingWriter has Write only.
LwMethods == IF lwKind = "writeCloser" THEN {"Write", "Close"} ELSE {"Write"}

\* What the underlying endpoint may answer to a call of the method op.
LwUnderResults(op) ==
    IF op = "Write" THEN {Result(1, NilErr), Result(0, EIO)}
                    ELSE {Result(0, NilErr), Result(0, ECLOSE)}

\* No LockingWriter or LockingWriteCloser has been made.
LockOff ==
    /\ lwKind = "none"
    /\ lwLock = "none"
    /\ lwPc = [g \in LockCallers |-> "idle"]
    /\ lwOp = [g \in LockCallers |-> "none"]
    /\ lwRet = [g \in LockCallers |-> NoResult]
    /\ lwOps = 0

\* NewLockingWriter(iow), NewLockingWriteCloser(iowc)
NewLocking(k) ==
    /\ lwKind = k
    /\ lwLock = "none"
    /\ lwPc = [g \in LockCallers |-> "idle"]
    /\ lwOp = [g \in LockCallers |-> "none"]
    /\ lwRet = [g \in LockCallers |-> NoResult]
    /\ lwOps = 0

\* The goroutine g calls Write or Close.
LwBegin(g, op) ==
    /\ lwPc[g] = "idle"
    /\ op \in LwMethods
    /\ lwOps < MaxLwOps
    /\ lwPc' = [lwPc EXCEPT ![g] = "lock"]
    /\ lwOp' = [lwOp EXCEPT ![g] = op]
    /\ lwOps' = lwOps + 1
    /\ UNCHANGED <<decoVars, duperVars, fanVars, ctorVars, shortVars, lwKind, lwLock, lwRet>>

\* A faulty LwLockFree: Lock() returns while another goroutine holds the
\* lock.
LwLockFree_Always == TRUE

\* sync.Mutex: Lock() returns when no goroutine holds the lock.
LwLockFree == lwLock = "none"

\* lw.lock.Lock() returns and the call into the endpoint begins.
LwLock(g) ==
    /\ lwPc[g] = "lock"
    /\ LwLockFree
    /\ lwLock' = g
    /\ lwPc' = [lwPc EXCEPT ![g] = "io"]
    /\ UNCHANGED <<decoVars, duperVars, fanVars, ctorVars, shortVars, lwKind, lwOp, lwRet, lwOps>>

\* lw.iow.Write(data), lwc.iowc.Close(): the endpoint answers r.
LwUnder(g, r) ==
    /\ lwPc[g] = "io"
    /\ r \in LwUnderResults(lwOp[g])
    /\ lwRet' = [lwRet EXCEPT ![g] = r]
    /\ lwPc' = [lwPc EXCEPT ![g] = "unlock"]
    /\ UNCHANGED <<decoVars, duperVars, fanVars, ctorVars, shortVars, lwKind, lwLock, lwOp, lwOps>>

\* defer lw.lock.Unlock(); the call returns what the endpoint answered.
LwReturn(g) ==
    /\ lwPc[g] = "unlock"
    /\ lwLock' = IF lwLock = g THEN "none" ELSE lwLock
    /\ lwPc' = [lwPc EXCEPT ![g] = "idle"]
    /\ lwOp' = [lwOp EXCEPT ![g] = "none"]
    /\ lwRet' = [lwRet EXCEPT ![g] = NoResult]
    /\ UNCHANGED <<decoVars, duperVars, fanVars, ctorVars, shortVars, lwKind, lwOps>>

NextLock ==
    \/ \E g \in LockCallers, op \in {"Write", "Close"} : LwBegin(g, op)
    \/ \E g \in LockCallers : LwLock(g)
    \/ \E g \in LockCallers, r \in LwUnderResults("Write") \cup LwUnderResults("Close") :
           LwUnder(g, r)
    \/ \E g \in LockCallers : LwReturn(g)

\* The goroutines that are inside a call into the underlying endpoint.
InUnder == {g \in LockCallers : lwPc[g] = "io"}

\* ------------------------------------------------------------------------
\* ShortWriter
\* ------------------------------------------------------------------------
\* How the wrapped io.Writer behaves: it takes everything, it fails having
\* taken nothing, or it fails having left the last byte out.
ShortUnders == {"all", "fail", "part"}

\* s.iow.Write(p) with len(p) = k on a wrapped writer that behaves as beh.
ShortUnderWrite(beh, k) ==
    IF beh = "all" THEN Result(k, NilErr)
    ELSE IF beh = "fail" \/ k = 0 THEN Result(0, EIO)
    ELSE Result(k - 1, EIO)

\* index := len(data); if index > s.max { index = s.max }
ShortIndex(len, max) == IF len > max THEN max ELSE len

\* shortWriter.Write(data): the length handed to the wrapped writer and
\* what the call returns.
ShortWrite(max, len, beh) ==
    LET index == ShortIndex(len, max)
        r == ShortUnderWrite(beh, index)
    IN [handed |-> index,
        ret |-> IF r.err # NilErr THEN r ELSE Result(r.n, ErrShortWrite)]

NoShortArgs == [max |-> 0, len |-> 0, under |-> "all"]

NoShortRes == [handed |-> -1, ret |-> NoResult]

\* No ShortWriter has been made.
ShortOff ==
    /\ swPc = "none"
    /\ swArgs = NoShortArgs
    /\ swRes = NoShortRes

\* ShortWriter(iow, max) is made and Write(data) called on it.
ShortCalled ==
    /\ swPc = "call"
    /\ swArgs \in [max : 0..MaxShortMax, len : 0..MaxShortLen, under : ShortUnders]
    /\ swRes = NoShortRes

\* Write returns.
ShortReturn ==
    /\ swPc = "call"
    /\ swRes' = ShortWrite(swArgs.max, swArgs.len, swArgs.under)
    /\ swPc' = "done"
    /\ UNCHANGED <<decoVars, duperVars, fanVars, ctorVars, lockVars, swArgs>>

NextShort == ShortReturn

UtilOff == CtorOff /\ LockOff /\ ShortOff

\* The client calls NewSpooledWriteCloser with a list of setters.
CtorCalled ==
    /\ ctorPc = "new"
    /\ ctorOpts \in SetterLists
    /\ ctorRes = NoCtorRes

\* NewSpooledWriteCloser returns.
CtorReturn ==
    /\ ctorPc = "new"
    /\ ctorRes' = NewSpooledWith(ctorOpts)
    /\ ctorPc' = "done"
    /\ UNCHANGED <<decoVars, duperVars, fanVars, ctorOpts, lockVars, shortVars>>

NextCtor == CtorReturn

\* ------------------------------------------------------------------------
\* Construction
\* ------------------------------------------------------------------------
\* No decorator has been made.
DecoFresh ==
    /\ inst = "none"
    /\ timeout = 0
    /\ bufferSize = 0
    /\ halted = FALSE
    /\ jobs = <<>>
    /\ jobsClosed = FALSE
    /\ jobsDone = 0
    /\ workerPc = "none"
    /\ workerJob = NoJob
    /\ workerRes = NoResult
    /\ results = [i \in CallIds |-> <<>>]
    /\ callPc = [c \in Callers |-> "idle"]
    /\ callId = [c \in Callers |-> 0]
    /\ timerFired = [c \in Callers |-> FALSE]
    /\ nextId = 1
    /\ outcome = [i \in CallIds |-> NoOutcome]
    /\ produced = [i \in CallIds |-> NoResult]
    /\ servedBy = [i \in CallIds |-> 0]
    /\ closePc = "idle"
    /\ closeErr1 = NilErr
    /\ closeRet = NilErr
    /\ closeErr2 = NilErr
    /\ underCloses = 0
    /\ underIO = 0
    /\ buf = <<>>
    /\ bwErr = NilErr
    /\ bwLock = "none"
    /\ underOut = <<>>
    /\ okData = <<>>
    /\ flushPc = "idle"
    /\ flushN = 0

DecoOff == kind = "none" /\ mode = "seq" /\ DecoFresh

InitDeco ==
    /\ kind \in Kinds
    /\ mode \in {"conc", "seq"}
    /\ DecoFresh
    /\ DuperOff
    /\ FanOff
    /\ UtilOff

\* A faulty BadTimeout: a timeout of 0 is let through.
BadTimeout_ZeroAllowed(d) == d < 0

\* if timeout <= 0 { panic(...) }
BadTimeout(d) == d <= 0

\* NewTimedWriteCloser / NewTimedReadCloser: panics when timeout <= 0, else
\* makes the jobs channel, jobsDone.Add(1) and starts the worker.
NewTimed(d) ==
    /\ inst = "none"
    /\ kind \in TimedKinds
    /\ IF BadTimeout(d)
         THEN /\ inst' = "panic"
              /\ UNCHANGED <<timeout, jobsDone, workerPc>>
         ELSE /\ inst' = "live"
              /\ timeout' = d
              /\ jobsDone' = 1
              /\ workerPc' = "recv"
    /\ UNCHANGED <<otherVars, kind, mode, bufferSize, jobs, jobsClosed, workerJob, workerRes,
                   callVars, histVars, closeVars, bufVars, flushVars, results,
                   underIO, okData>>

\* NewSpooledWriteCloser with the BufSize(size) setter: an error when
\* size <= 0, else the bufio.Writer, jobsDone.Add(1) and the worker.
NewSpooled(size) ==
    /\ inst = "none"
    /\ kind = "spooled"
    /\ IF BadValue(size)
         THEN /\ inst' = "cfgerr"
              /\ UNCHANGED <<bufferSize, jobsDone, workerPc>>
         ELSE /\ inst' = "live"
              /\ bufferSize' = size
              /\ jobsDone' = 1
              /\ workerPc' = "recv"
    /\ UNCHANGED <<otherVars, kind, mode, timeout, jobs, jobsClosed, workerJob, workerRes,
                   callVars, histVars, closeVars, bufVars, flushVars, results,
                   underIO, okData>>

\* ------------------------------------------------------------------------
\* The background worker
\* ------------------------------------------------------------------------
\* A faulty Receiving: the next job is taken while the call for the one
\* before is still running.
Receiving_Always(pc) == pc \in {"recv", "io"}

\* for job := range w.jobs: the one worker is back at the head of its loop.
Receiving(pc) == pc = "recv"

\* The worker receives a job from the jobs channel.  In the timeout
\* decorators the underlying Read/Write starts; the spooling worker goes on
\* to take bwLock.
WorkerRecv ==
    /\ Receiving(workerPc)
    /\ jobs # <<>>
    /\ workerJob' = Head(jobs)
    /\ jobs' = Tail(jobs)
    /\ IF kind = "spooled"
         THEN workerPc' = "lock" /\ UNCHANGED underIO
         ELSE workerPc' = "io" /\ underIO' = underIO + 1
    /\ UNCHANGED <<otherVars, cfgVars, jobsClosed, jobsDone, workerRes, callVars, histVars,
                   closeVars, bufVars, flushVars, results, okData>>

\* A faulty Drained: the loop ends with jobs left in the channel.
Drained_Always(q) == TRUE

\* for job := range w.jobs: a closed channel still hands out what it holds.
Drained(q) == q = <<>>

\* The worker's loop ends when the channel is closed and drained:
\* jobsDone.Done().
WorkerExit ==
    /\ workerPc = "recv"
    /\ Drained(jobs)
    /\ jobsClosed
    /\ workerPc' = "done"
    /\ jobsDone' = jobsDone - 1
    /\ UNCHANGED <<otherVars, cfgVars, jobs, jobsClosed, workerJob, workerRes, callVars,
                   histVars, closeVars, bufVars, flushVars, results, underIO,
                   okData>>

\* A faulty PublishTo: one results channel for every job.
PublishTo_OneChannel(j) == 1

\* The channel the worker publishes job j's result on.
PublishTo(j) == j.id

\* What travels on a results channel: the writeResult, and the job it is the
\* result of.
Published(id, r) == [job |-> id, res |-> r]

\* A faulty Room: the results channel is made without a buffer and its
\* caller is not receiving.
Room_Unbuffered(ch) == Len(ch) < ResultsCap - 1

\* job.results <- writeResult{n, err}: the send goes on when the channel
\* ch has room.
Room(ch) == Len(ch) < ResultsCap

\* The underlying Read/Write returns r; the worker publishes it on the job's
\* own results channel (buffered, so the send never blocks).
TimedWorkerIO(r) ==
    /\ kind \in TimedKinds
    /\ workerPc = "io"
    /\ r \in UnderResults(Len(workerJob.data))
    /\ produced' = [produced EXCEPT ![workerJob.id] = r]
    /\ Room(results[PublishTo(workerJob)])
    /\ results' = [results EXCEPT ![PublishTo(workerJob)] =
                       Append(@, Published(workerJob.id, r))]
    /\ workerPc' = "recv"
    /\ workerJob' = NoJob
    /\ UNCHANGED <<otherVars, cfgVars, chanVars, workerRes, callVars, outcome, servedBy,
                   closeVars, bufVars, flushVars, underIO, okData>>

\* A faulty BwLockFree: bwLock.Lock() never waits.
BwLockFree_Always == TRUE

\* w.bwLock.Lock() goes on only when no goroutine holds bwLock.
BwLockFree == bwLock = "none"

\* w.bwLock.Lock() in the worker, for a job or for a tick's Flush
WorkerLock ==
    /\ workerPc \in {"lock", "ticklock"}
    /\ BwLockFree
    /\ bwLock' = "worker"
    /\ workerPc' = IF workerPc = "lock" THEN "io" ELSE "tickio"
    /\ UNCHANGED <<otherVars, cfgVars, chanVars, workerJob, workerRes, callVars, histVars,
                   closeVars, buf, bwErr, underOut, flushVars, results, underIO,
                   okData>>

\* n, err := w.bw.Write(job.data); w.bwLock.Unlock(); then the worker offers
\* the result on the job's unbuffered results channel.
SpoolWorkerIO(behs) ==
    /\ kind = "spooled"
    /\ workerPc = "io"
    /\ LET w == BwWrite(CurBw, workerJob.data, 0, bufferSize, behs)
       IN /\ buf' = w.b.buf
          /\ bwErr' = w.b.err
          /\ underOut' = w.b.out
          /\ workerRes' = w.res
          /\ produced' = [produced EXCEPT ![workerJob.id] = w.res]
    /\ bwLock' = "none"
    /\ workerPc' = "publish"
    /\ UNCHANGED <<otherVars, cfgVars, chanVars, workerJob, callVars, outcome, servedBy,
                   closeVars, flushVars, results, underIO, okData>>

\* case <-ticker.C: w.Flush() begins
Tick ==
    /\ kind = "spooled"
    /\ workerPc = "recv"
    /\ workerPc' = "ticklock"
    /\ UNCHANGED <<otherVars, cfgVars, chanVars, workerJob, workerRes, callVars, histVars,
                   closeVars, bufVars, flushVars, results, underIO, okData>>

\* A faulty TickFlush: the tick takes and releases the lock without flushing.
TickFlush_Nothing(beh) ==
    /\ workerPc = "tickio"
    /\ bwLock' = "none"
    /\ workerPc' = "recv"
    /\ UNCHANGED <<otherVars, cfgVars, chanVars, workerJob, workerRes, callVars, histVars,
                   closeVars, buf, bwErr, underOut, flushVars, results, underIO,
                   okData>>

\* the tick's w.bw.Flush() and the unlock
TickFlush(beh) ==
    /\ workerPc = "tickio"
    /\ LET f == BwFlush(CurBw, beh)
       IN /\ buf' = f.b.buf
          /\ bwErr' = f.b.err
          /\ underOut' = f.b.out
    /\ bwLock' = "none"
    /\ workerPc' = "recv"
    /\ UNCHANGED <<otherVars, cfgVars, chanVars, workerJob, workerRes, callVars, histVars,
                   closeVars, flushVars, results, underIO, okData>>

\* ------------------------------------------------------------------------
\* Read / Write
\* ------------------------------------------------------------------------
\* In the sequential mode a call begins only when no other call, Close
\* included, is in progress.
MayBegin(c) ==
    mode = "seq" =>
        /\ c = SeqCaller
        /\ closePc \in {"idle", "closed"}
        /\ flushPc = "idle"

\* A faulty CallBegin: the halted check is missing.
CallBegin_NoHaltedCheck(c) ==
    /\ inst = "live"
    /\ callPc[c] = "idle"
    /\ MayBegin(c)
    /\ nextId <= CallLimit
    /\ nextId' = nextId + 1
    /\ callPc' = [callPc EXCEPT ![c] = "send"]
    /\ callId' = [callId EXCEPT ![c] = nextId]
    /\ UNCHANGED <<otherVars, cfgVars, chanVars, workerVars, timerFired, histVars, closeVars,
                   bufVars, flushVars, results, underIO, okData>>

\* if w.halted { return 0, ErrWriteAfterClose{} }; results := make(chan ...)
CallBegin(c) ==
    /\ inst = "live"
    /\ callPc[c] = "idle"
    /\ MayBegin(c)
    /\ nextId <= CallLimit
    /\ nextId' = nextId + 1
    /\ IF halted
         THEN /\ outcome' = [outcome EXCEPT ![nextId] =
                     Outcome("afterclose", Result(0, ErrAfterClose(kind)), FALSE)]
              /\ UNCHANGED <<callPc, callId>>
         ELSE /\ callPc' = [callPc EXCEPT ![c] = "send"]
              /\ callId' = [callId EXCEPT ![c] = nextId]
              /\ UNCHANGED outcome
    /\ UNCHANGED <<otherVars, cfgVars, chanVars, workerVars, timerFired, produced, servedBy,
                   closeVars, bufVars, flushVars, results, underIO, okData>>

\* A faulty Accepts: the jobs channel is made without a buffer, and the
\* send finds no room.
Accepts_Unbuffered(q) == Len(q) < JobsCap - 1

\* case w.jobs <- job: the channel q has room for the job.
Accepts(q) == Len(q) < JobsCap

\* The non-blocking send: select { case w.jobs <- job: default: }.  A send on
\* a closed channel panics; a full channel drops the job.  The caller then
\* waits: in the timeout decorators the timer of the second select starts.
CallSend(c, len) ==
    /\ callPc[c] = "send"
    /\ IF jobsClosed
         THEN /\ callPc' = [callPc EXCEPT ![c] = "panic"]
              /\ outcome' = [outcome EXCEPT ![callId[c]] =
                     Outcome("panic", NoResult, FALSE)]
              /\ UNCHANGED jobs
         ELSE /\ callPc' = [callPc EXCEPT ![c] = "select"]
              /\ jobs' = IF Accepts(jobs)
                           THEN Append(jobs, [id |-> callId[c],
                                              data |-> DataOf(callId[c], len)])
                           ELSE jobs
              /\ UNCHANGED outcome
    /\ UNCHANGED <<otherVars, cfgVars, jobsClosed, jobsDone, workerVars, callId, timerFired,
                   nextId, produced, servedBy, closeVars, bufVars, flushVars,
                   results, underIO, okData>>

\* A faulty TimerFire: the timer is armed only for a job the channel took.
TimerFire_OnlyIfAccepted(c) ==
    /\ kind \in TimedKinds
    /\ callPc[c] = "select"
    /\ ~timerFired[c]
    /\ \/ \E k \in 1..Len(jobs) : jobs[k].id = callId[c]
       \/ workerJob.id = callId[c]
       \/ results[callId[c]] # <<>>
    /\ timerFired' = [timerFired EXCEPT ![c] = TRUE]
    /\ UNCHANGED <<otherVars, cfgVars, chanVars, workerVars, callPc, callId, nextId,
                   histVars, closeVars, bufVars, flushVars, results, underIO,
                   okData>>

\* time.After(w.timeout) fires for the call of c.
TimerFire(c) ==
    /\ kind \in TimedKinds
    /\ callPc[c] = "select"
    /\ ~timerFired[c]
    /\ timerFired' = [timerFired EXCEPT ![c] = TRUE]
    /\ UNCHANGED <<otherVars, cfgVars, chanVars, workerVars, callPc, callId, nextId,
                   histVars, closeVars, bufVars, flushVars, results, underIO,
                   okData>>

\* case result := <-results: return result.n, result.err
CallResult(c) ==
    /\ kind \in TimedKinds
    /\ callPc[c] = "select"
    /\ results[callId[c]] # <<>>
    /\ outcome' = [outcome EXCEPT ![callId[c]] =
           Outcome("result", Head(results[callId[c]]).res, timerFired[c])]
    /\ servedBy' = [servedBy EXCEPT ![callId[c]] = Head(results[callId[c]]).job]
    /\ results' = [results EXCEPT ![callId[c]] = Tail(@)]
    /\ callPc' = [callPc EXCEPT ![c] = "idle"]
    /\ callId' = [callId EXCEPT ![c] = 0]
    /\ timerFired' = [timerFired EXCEPT ![c] = FALSE]
    /\ UNCHANGED <<otherVars, cfgVars, chanVars, workerVars, nextId, produced, closeVars,
                   bufVars, flushVars, underIO, okData>>

\* A faulty TimeoutResult: the error carries no duration.
TimeoutResult_NoDuration == Result(0, ErrTimeout(0))

\* What the timer branch returns.
TimeoutResult == Result(0, ErrTimeout(timeout))

\* case <-time.After(w.timeout): return 0, ErrTimeout(w.timeout)
CallTimeout(c) ==
    /\ kind \in TimedKinds
    /\ callPc[c] = "select"
    /\ timerFired[c]
    /\ outcome' = [outcome EXCEPT ![callId[c]] =
           Outcome("timeout", TimeoutResult, timerFired[c])]
    /\ callPc' = [callPc EXCEPT ![c] = "idle"]
    /\ callId' = [callId EXCEPT ![c] = 0]
    /\ timerFired' = [timerFired EXCEPT ![c] = FALSE]
    /\ UNCHANGED <<otherVars, cfgVars, chanVars, workerVars, nextId, produced, servedBy,
                   closeVars, bufVars, flushVars, results, underIO, okData>>

\* A faulty Awaits: all calls wait on one shared results channel.
Awaits_Shared(c, id) == callPc[c] = "select"

\* results := make(chan writeResult): the call of c waits on the channel
\* made for its own job, the one the job id carries.
Awaits(c, id) == callPc[c] = "select" /\ callId[c] = id

\* SpooledWriteCloser.Write: result := <-results; return result.n, result.err
\* The worker's send and the caller's receive on the unbuffered channel
\* happen together.
SpoolCallResult(c) ==
    /\ kind = "spooled"
    /\ workerPc = "publish"
    /\ Awaits(c, workerJob.id)
    /\ outcome' = [outcome EXCEPT ![callId[c]] =
           Outcome("result", workerRes, FALSE)]
    /\ servedBy' = [servedBy EXCEPT ![callId[c]] = workerJob.id]
    /\ okData' = IF workerRes = Result(Len(workerJob.data), NilErr)
                   THEN okData \o workerJob.data
                   ELSE okData
    /\ workerPc' = "recv"
    /\ workerJob' = NoJob
    /\ workerRes' = NoResult
    /\ callPc' = [callPc EXCEPT ![c] = "idle"]
    /\ callId' = [callId EXCEPT ![c] = 0]
    /\ UNCHANGED <<otherVars, cfgVars, chanVars, timerFired, nextId, produced, closeVars,
                   bufVars, flushVars, results, underIO>>

\* ------------------------------------------------------------------------
\* SpooledWriteCloser.Flush called by a client
\* ------------------------------------------------------------------------
FlushBegin ==
    /\ inst = "live"
    /\ kind = "spooled"
    /\ flushPc = "idle"
    /\ flushN < MaxFlushes
    /\ mode = "seq" => (\A c \in Callers : callPc[c] = "idle")
                         /\ closePc \in {"idle", "closed"}
    /\ flushPc' = "lock"
    /\ flushN' = flushN + 1
    /\ UNCHANGED <<otherVars, cfgVars, chanVars, workerVars, callVars, histVars, closeVars,
                   bufVars, results, underIO, okData>>

\* w.bwLock.Lock()
FlushLock ==
    /\ flushPc = "lock"
    /\ BwLockFree
    /\ bwLock' = "flusher"
    /\ flushPc' = "io"
    /\ UNCHANGED <<otherVars, cfgVars, chanVars, workerVars, callVars, histVars, closeVars,
                   buf, bwErr, underOut, flushN, results, underIO, okData>>

\* A faulty FlushIO: Flush takes and releases the lock without flushing.
FlushIO_Nothing(beh) ==
    /\ flushPc = "io"
    /\ bwLock' = "none"
    /\ flushPc' = "idle"
    /\ UNCHANGED <<otherVars, cfgVars, chanVars, workerVars, callVars, histVars, closeVars,
                   buf, bwErr, underOut, flushN, results, underIO, okData>>

\* return w.bw.Flush(), with the deferred unlock
FlushIO(beh) ==
    /\ flushPc = "io"
    /\ LET f == BwFlush(CurBw, beh)
       IN /\ buf' = f.b.buf
          /\ bwErr' = f.b.err
          /\ underOut' = f.b.out
    /\ bwLock' = "none"
    /\ flushPc' = "idle"
    /\ UNCHANGED <<otherVars, cfgVars, chanVars, workerVars, callVars, histVars, closeVars,
                   flushN, results, underIO, okData>>

\* ------------------------------------------------------------------------
\* Close
\* ------------------------------------------------------------------------
\* close(w.jobs)
CloseJobs ==
    /\ inst = "live"
    /\ closePc = "idle"
    /\ mode = "seq" => (\A c \in Callers : callPc[c] = "idle") /\ flushPc = "idle"
    /\ jobsClosed' = TRUE
    /\ closePc' = "wait"
    /\ UNCHANGED <<otherVars, cfgVars, jobs, jobsDone, workerVars, callVars, histVars,
                   halted, closeErr1, closeRet, closeErr2, underCloses, bufVars, flushVars,
                   results, underIO, okData>>

\* A faulty CloseMayProceed: Close does not wait for the worker.
CloseMayProceed_NoWait == TRUE

\* What Close waits for before it goes on.
CloseMayProceed == jobsDone = 0

\* w.jobsDone.Wait()
CloseWait ==
    /\ closePc = "wait"
    /\ CloseMayProceed
    /\ closePc' = "halt"
    /\ UNCHANGED <<otherVars, cfgVars, chanVars, workerVars, callVars, histVars, halted,
                   closeErr1, closeRet, closeErr2, underCloses, bufVars, flushVars, results,
                   underIO, okData>>

\* A faulty AfterHalt: the SpooledWriteCloser skips its final flush.
AfterHalt_NoFlush == "close"

\* What Close does after w.halted = true.
AfterHalt == IF kind = "spooled" THEN "flushlock" ELSE "close"

\* w.halted = true
CloseHalt ==
    /\ closePc = "halt"
    /\ halted' = TRUE
    /\ closePc' = AfterHalt
    /\ UNCHANGED <<otherVars, cfgVars, chanVars, workerVars, callVars, histVars, closeErr1,
                   closeRet, closeErr2, underCloses, bufVars, flushVars, results, underIO,
                   okData>>

\* err1 := w.Flush(): w.bwLock.Lock()
CloseFlushLock ==
    /\ closePc = "flushlock"
    /\ BwLockFree
    /\ bwLock' = "closer"
    /\ closePc' = "flushio"
    /\ UNCHANGED <<otherVars, cfgVars, chanVars, workerVars, callVars, histVars, halted,
                   closeErr1, closeRet, closeErr2, underCloses, buf, bwErr, underOut,
                   flushVars, results, underIO, okData>>

\* err1 := w.Flush(): w.bw.Flush() and the unlock
CloseFlushIO(beh) ==
    /\ closePc = "flushio"
    /\ LET f == BwFlush(CurBw, beh)
       IN /\ buf' = f.b.buf
          /\ bwErr' = f.b.err
          /\ underOut' = f.b.out
          /\ closeErr1' = f.err
    /\ bwLock' = "none"
    /\ closePc' = "close"
    /\ UNCHANGED <<otherVars, cfgVars, chanVars, workerVars, callVars, histVars, halted,
                   closeRet, closeErr2, underCloses, flushVars, results, underIO, okData>>

\* A faulty CloseError: the error of the flush comes first.
CloseError_FlushFirst(err1, err2) == IF err1 # NilErr THEN err1 ELSE err2

\* What Close returns given the final flush's err1 and the endpoint's err2.
CloseError(err1, err2) == IF err2 # NilErr THEN err2 ELSE err1

\* The underlying endpoint's Close is invoked and Close returns: the timeout
\* decorators return its error, the SpooledWriteCloser err2 or else err1.
CloseUnder(err2) ==
    /\ closePc = "close"
    /\ underCloses' = underCloses + 1
    /\ closeRet' = CloseError(closeErr1, err2)
    /\ closeErr2' = err2
    /\ closePc' = "closed"
    /\ UNCHANGED <<otherVars, cfgVars, chanVars, workerVars, callVars, histVars, halted,
                   closeErr1, bufVars, flushVars, results, underIO, okData>>

NextDeco ==
    \/ \E d \in Timeouts : NewTimed(d)
    \/ \E size \in BufSizes : NewSpooled(size)
    \/ WorkerRecv
    \/ WorkerExit
    \/ \E r \in UnderResults(Len(workerJob.data)) : TimedWorkerIO(r)
    \/ WorkerLock
    \/ \E behs \in BehSeqs : SpoolWorkerIO(behs)
    \/ Tick
    \/ \E beh \in Behs : TickFlush(beh)
    \/ \E c \in Callers : CallBegin(c)
    \/ \E c \in Callers, len \in DataLens : CallSend(c, len)
    \/ \E c \in Callers : TimerFire(c)
    \/ \E c \in Callers : CallResult(c)
    \/ \E c \in Callers : CallTimeout(c)
    \/ \E c \in Callers : SpoolCallResult(c)
    \/ FlushBegin
    \/ FlushLock
    \/ \E beh \in Behs : FlushIO(beh)
    \/ CloseJobs
    \/ CloseWait
    \/ CloseHalt
    \/ CloseFlushLock
    \/ \E beh \in Behs : CloseFlushIO(beh)
    \/ \E e \in CloseResults : CloseUnder(e)

SpecDeco == InitDeco /\ [][NextDeco]_vars

\* The timeout decorators alone, with the scheduling the Go runtime gives:
\* a timer that was started fires, and a caller waiting in its select
\* takes a branch that is ready.  Nothing makes the underlying endpoint
\* return.
InitTimed == InitDeco /\ kind = "timedW"

NextTimed ==
    \/ \E d \in Timeouts : NewTimed(d)
    \/ WorkerRecv
    \/ WorkerExit
    \/ \E r \in UnderResults(Len(workerJob.data)) : TimedWorkerIO(r)
    \/ \E c \in Callers : CallBegin(c)
    \/ \E c \in Callers, len \in DataLens : CallSend(c, len)
    \/ \E c \in Callers : TimerFire(c)
    \/ \E c \in Callers : CallResult(c)
    \/ \E c \in Callers : CallTimeout(c)
    \/ CloseJobs
    \/ CloseWait
    \/ CloseHalt
    \/ \E e \in CloseResults : CloseUnder(e)

\* Both timeout decorators, with no assumption on scheduling.
InitTimedRW == InitDeco /\ kind \in TimedKinds

SpecTimed == InitTimedRW /\ [][NextTimed]_vars

\* Both timeout decorators when every call into the underlying endpoint
\* returns, and the worker and the goroutine calling Close are scheduled.
\* Nothing makes a client call, and nothing makes a timer fire.
FairSpecTimedClose ==
    /\ InitTimedRW
    /\ [][NextTimed]_vars
    /\ WF_vars(WorkerRecv)
    /\ WF_vars(WorkerExit)
    /\ WF_vars(\E r \in UnderResults(Len(workerJob.data)) : TimedWorkerIO(r))
    /\ WF_vars(CloseWait)
    /\ WF_vars(CloseHalt)
    /\ WF_vars(\E e \in CloseResults : CloseUnder(e))

FairSpecTimed ==
    /\ InitTimed
    /\ [][NextTimed]_vars
    /\ \A c \in Callers : WF_vars(TimerFire(c))
    /\ \A c \in Callers : WF_vars(CallResult(c) \/ CallTimeout(c))

\* The SpooledWriteCloser alone, with the scheduling the Go runtime gives:
\* every goroutine that can take a step does, the ticker keeps ticking and
\* is chosen by the worker's select again and again, a goroutine waiting
\* for bwLock gets it, and the underlying endpoint answers every call.
InitSpool == InitDeco /\ kind = "spooled" /\ mode = "seq"

NextSpool ==
    \/ \E size \in BufSizes : NewSpooled(size)
    \/ WorkerRecv
    \/ WorkerExit
    \/ WorkerLock
    \/ \E behs \in BehSeqs : SpoolWorkerIO(behs)
    \/ Tick
    \/ \E beh \in Behs : TickFlush(beh)
    \/ \E c \in Callers : CallBegin(c)
    \/ \E c \in Callers, len \in DataLens : CallSend(c, len)
    \/ \E c \in Callers : SpoolCallResult(c)
    \/ FlushBegin
    \/ FlushLock
    \/ \E beh \in Behs : FlushIO(beh)
    \/ CloseJobs
    \/ CloseWait
    \/ CloseHalt
    \/ CloseFlushLock
    \/ \E beh \in Behs : CloseFlushIO(beh)
    \/ \E e \in CloseResults : CloseUnder(e)

FairSpecSpool ==
    /\ InitSpool
    /\ [][NextSpool]_vars
    /\ WF_vars(WorkerRecv)
    /\ SF_vars(WorkerLock)
    /\ WF_vars(\E behs \in BehSeqs : SpoolWorkerIO(behs))
    /\ SF_vars(Tick)
    /\ WF_vars(\E beh \in Behs : TickFlush(beh))
    /\ WF_vars(\E c \in Callers : SpoolCallResult(c))
    /\ SF_vars(FlushLock)
    /\ WF_vars(\E beh \in Behs : FlushIO(beh))

\* ------------------------------------------------------------------------
\* Properties of the decorators
\* ------------------------------------------------------------------------
\* C1: while Close has not been called on a timeout decorator, every call
\* that has returned returned either exactly the result the underlying
\* endpoint produced for the job of this very call, or, and then only with
\* its timer fired, (0, ErrTimeout(d)) with d the instance's timeout; it
\* ended in no other way.
C1_TimedReturnsResultOrTimeout ==
    kind \in TimedKinds =>
        \A i \in CallIds :
            LET o == outcome[i]
            IN /\ (closePc = "idle" /\ o.via # "none") => o.via \in {"result", "timeout"}
               /\ o.via = "result" => produced[i] # NoResult /\ o.res = produced[i]
               /\ o.via = "timeout" => o.fired /\ o.res = Result(0, ErrTimeout(timeout))
               /\ o.via = "timeout" => timeout \in Timeouts /\ timeout > 0

\* C1 witness: with Close not called, one call returned the endpoint's
\* result and another one timed out.
C1_Witness ==
    /\ kind \in TimedKinds
    /\ closePc = "idle"
    /\ \E i, j \in CallIds :
          /\ outcome[i].via = "result" /\ outcome[i].res.err = EIO
          /\ outcome[j].via = "timeout" /\ outcome[j].res.err.d = 2

\* The job of the call c is in was dropped by the non-blocking send.
Dropped(c) ==
    /\ callPc[c] = "select"
    /\ \A k \in 1..Len(jobs) : jobs[k].id # callId[c]
    /\ workerJob.id # callId[c]
    /\ produced[callId[c]] = NoResult

\* C2: a call of a timeout decorator that waits in its select always
\* returns: it never waits indefinitely, whatever the worker and the
\* underlying endpoint do.
C2_TimedCallAlwaysReturns ==
    \A c \in Callers : (callPc[c] = "select") ~> (callPc[c] = "idle")

\* C2 witness: a caller waits with its timer fired while its job was
\* dropped and the worker is inside the underlying call of another job.
C2_Witness ==
    \E c \in Callers :
        /\ kind \in TimedKinds
        /\ Dropped(c)
        /\ timerFired[c]
        /\ workerPc = "io"
        /\ jobs # <<>>

\* C6: once Close has returned, a call that begins returns at once
\* (0, ErrWriteAfterClose / ErrReadAfterClose): its caller neither blocks
\* nor panics, no job enters the jobs channel and the worker starts no
\* underlying call.
C6_UsedAfterClose ==
    [][closePc = "closed" =>
          /\ \A c \in Callers : callPc[c] = "idle" => callPc'[c] = "idle"
          /\ nextId' # nextId =>
                 outcome'[nextId] = Outcome("afterclose", Result(0, ErrAfterClose(kind)), FALSE)
          /\ jobs' = jobs
          /\ underIO' = underIO
          /\ workerPc' = workerPc
          /\ produced' = produced]_vars

\* C6 witness: a call was made after Close returned.
C6_Witness ==
    /\ closePc = "closed"
    /\ \E i \in CallIds : outcome[i].via = "afterclose"
    /\ \E i \in CallIds : outcome[i].via = "result"

\* C7: when Close of a timeout decorator invokes the underlying Close, and
\* ever after, the worker has exited: no underlying Read/Write is in
\* progress and no job is left that could start one.
C7_CloseAfterWorkerExit ==
    (kind \in TimedKinds /\ closePc \in {"close", "closed"}) =>
        /\ workerPc = "done"
        /\ jobs = <<>>

\* C7 witness: the underlying endpoint was closed after a call timed out
\* whose job the worker then completed.
C7_Witness ==
    /\ kind \in TimedKinds
    /\ closePc = "closed"
    /\ underCloses = 1
    /\ \E i \in CallIds : outcome[i].via = "timeout" /\ produced[i] # NoResult

\* C8: after SpooledWriteCloser.Close returned nil, the underlying endpoint
\* has received exactly the data of the Writes that returned success, in
\* the order of these Writes.
C8_CloseFlushesEverything ==
    (kind = "spooled" /\ closePc = "closed" /\ closeRet = NilErr) =>
        underOut = okData

\* C8 witness: Close returned nil after successful Writes of two calls, at
\* least four bytes in all.
C8_Witness ==
    /\ kind = "spooled"
    /\ closePc = "closed"
    /\ closeRet = NilErr
    /\ Len(okData) >= 4
    /\ okData[1] # okData[Len(okData)]

InitDuper == DecoOff /\ FanOff /\ UtilOff /\ NewWriteCloseDuper /\ dMode \in DupModes

SpecDuper == InitDuper /\ [][NextDuper]_vars

InitFairDuper ==
    DecoOff /\ FanOff /\ UtilOff /\ NewWriteCloseDuper /\ dMode \in DupFairModes

\* The writeCloseDuper with the scheduling the Go runtime gives its
\* goroutines: a handle's goroutine whose done.Wait() can return goes on,
\* and so does the group's goroutine.  Nothing makes a client call Close.
FairSpecDuper ==
    /\ InitFairDuper
    /\ [][NextDuper]_vars
    /\ \A d \in Handles : WF_vars(DupWatch(d))
    /\ WF_vars(GroupClose)

InitFan ==
    /\ DecoOff
    /\ DuperOff
    /\ UtilOff
    /\ fanLocking = FALSE
    /\ \E ws \in SUBSET Members : NewMultiWriteCloser(ws)

SpecFan == InitFan /\ [][NextFan]_vars

InitLockFan ==
    /\ DecoOff
    /\ DuperOff
    /\ UtilOff
    /\ fanLocking = TRUE
    /\ \E ws \in SUBSET Members : NewMultiWriteCloser(ws)

SpecLockFan == InitLockFan /\ [][NextFan]_vars

\* Every issued handle has had Close called on it.
AllHandlesClosed == \A h \in dIssued : dClosed[h]

\* No goroutine of the group can take a step.
DuperQuiet ==
    /\ \A h \in dIssued : ~(dWatch[h] = "wait" /\ dDone[h] = 0)
    /\ ~(dGroupPc = "wait" /\ pDone = 0)

\* C3: in a writeCloseDuper group whose handles come from
\* NewWriteCloseDuper and from Dup on handles not yet closed, each closed
\* once, the underlying endpoint's Close is invoked at most once, never
\* while an issued handle has not had Close called, and it has been invoked
\* once all handles are closed and the group's goroutines have run.
C3_UnderlyingClosedOnceAfterAllHandles ==
    (dGroupPc # "none" /\ ~dMisuse) =>
        /\ dUnderCloses <= 1
        /\ dUnderCloses >= 1 => AllHandlesClosed
        /\ (AllHandlesClosed /\ DuperQuiet) => dUnderCloses = 1

C3_Witness ==
    /\ ~dMisuse
    /\ Cardinality(dIssued) = 3
    /\ AllHandlesClosed
    /\ dUnderCloses = 1

\* C4: Write and WriteSeries of a NonLockingMultiWriteCloser return
\* (len(data), nil), whatever its members answered and also when it has no
\* member.
C4_WriteReturnsLenAndNil ==
    fanLast.op \in WriteOps => fanLast.ret = Result(fanLast.len, NilErr)

C4_Witness ==
    /\ fanLast.op = "Write"
    /\ fanLast.len = 2
    /\ Cardinality(fanLast.snap) = 3
    /\ fanLast.failed = fanLast.snap
    /\ fanLast.ret = Result(2, NilErr)

\* C5: when Write or WriteSeries returns, every member that answered with an
\* error or with a count other than len(data) is out of writers and iows and
\* was closed once by this call; every other member of the slice is still in
\* writers and iows and was not closed.
C5_FailedEvictedOthersKept ==
    fanLast.op \in WriteOps =>
        \A e \in fanLast.snap :
            IF e \in fanLast.failed
              THEN /\ e \notin writers
                   /\ e \notin Range(iows)
                   /\ epCloses[e] = fanLast.closes0[e] + 1
              ELSE /\ e \in writers
                   /\ e \in Range(iows)
                   /\ epCloses[e] = fanLast.closes0[e]

C5_Witness ==
    /\ fanLast.op \in WriteOps
    /\ fanLast.len = 2
    /\ fanLast.failed # {}
    /\ fanLast.snap \ fanLast.failed # {}
    /\ \A e \in fanLast.failed : e \notin writers /\ epCloses[e] = fanLast.closes0[e] + 1

\* Thread t is at a step that changes writers and iows.
FanModifying(t) ==
    \/ fpc[t] = "evict"
    \/ fpc[t] = "in" /\ fop[t].op \in {"Add", "Remove"}

\* Thread t is at a step that reads or changes writers or iows.
FanAccessing(t) == fpc[t] \in {"in", "evict"}

\* C10: on a LockingMultiWriteCloser no thread changes writers and iows
\* while another thread reads or changes them.
C10_NoRacingModification ==
    fanLocking =>
        \A t, u \in Threads :
            (t # u /\ FanModifying(t)) => ~FanAccessing(u)

\* C11: the underlying Writes of one handle Write call form one contiguous
\* run of the Writes the underlying endpoint receives: no Write of another
\* call lies between two Writes of the same call.
C11_WritesOfOneCallContiguous ==
    \A i, k \in 1..Len(dOut) :
        (i < k /\ dOut[i].call = dOut[k].call) =>
            \A j \in i..k : dOut[j].call = dOut[i].call

\* C11 witness: one handle is between two underlying Writes of its call (the
\* first came back short and is in the log) while another handle's Write
\* waits for pLock.
C11_Witness ==
    /\ \E h1, h2 \in dIssued :
           /\ h1 # h2
           /\ dWpc[h1] = "loop"
           /\ dWritten[h1] = 1
           /\ dWpc[h2] = "lock"
    /\ Len(dOut) >= 1

\* C12: on a TimedWriteCloser / TimedReadCloser a call returns only the
\* result of the job it submitted itself; the result of a job whose caller
\* timed out is returned by no other call.
C12_OnlyOwnResult ==
    kind \in TimedKinds =>
        \A i \in CallIds :
            /\ servedBy[i] \in {0, i}
            /\ outcome[i].via = "result" => servedBy[i] = i
            /\ outcome[i].via = "timeout" => \A j \in CallIds : servedBy[j] # i

\* C12 witness: a call timed out, the worker finished its job afterwards and
\* the result lies on the abandoned channel, and a later call returned the
\* result of its own job.
C12_Witness ==
    /\ kind \in TimedKinds
    /\ \E i, j \in CallIds :
           /\ i < j
           /\ outcome[i].via = "timeout"
           /\ results[i] # <<>>
           /\ outcome[j].via = "result"
           /\ servedBy[j] = j

\* The calls before the call of c that returned a timeout.
TimedOutBefore(c) == {i \in 1..(callId[c] - 1) : outcome[i].via = "timeout"}

\* C13 as stated: when one caller at a time calls the instance, the
\* non-blocking send never finds the jobs channel full.
C13_Original ==
    mode = "seq" => \A c \in Callers : ~Dropped(c)

\* C13 amended: when one caller at a time calls the instance, no job of a
\* SpooledWriteCloser is dropped, and a job of a timeout decorator is
\* dropped only after an earlier call has returned a timeout (its job is
\* then still in the channel, or in the worker with the next one queued).
C13_DroppedOnlyAfterTimeouts ==
    mode = "seq" =>
        \A c \in Callers :
            Dropped(c) => kind \in TimedKinds /\ TimedOutBefore(c) # {}

\* C13 witness: the third call of a single caller on a timeout decorator is
\* dropped: the first two timed out, the worker is still in the first job's
\* underlying call and the second job fills the channel.
C13_Witness ==
    /\ mode = "seq"
    /\ kind \in TimedKinds
    /\ Dropped(SeqCaller)
    /\ callId[SeqCaller] = 3
    /\ workerJob.id = 1
    /\ Len(jobs) = JobsCap
    /\ Cardinality(TimedOutBefore(SeqCaller)) = 2

\* C14: a job the non-blocking send found no room for is dropped: it never
\* reaches the worker, no result for it is ever produced or published, and
\* its caller stays where it waits.  A caller of a timeout decorator leaves
\* only through its timer; a caller of SpooledWriteCloser.Write never
\* leaves, whatever happens afterwards, Close included.
C14_DroppedJobNeverServed ==
    [][\A c \in Callers :
          Dropped(c) =>
              LET i == callId[c]
              IN /\ produced'[i] = NoResult
                 /\ results'[i] = <<>>
                 /\ workerJob'.id # i
                 /\ \A k \in 1..Len(jobs') : jobs'[k].id # i
                 /\ kind = "spooled" => Dropped(c)' /\ callId'[c] = i
                 /\ kind \in TimedKinds =>
                        \/ Dropped(c)' /\ callId'[c] = i
                        \/ outcome'[i].via = "timeout" /\ callPc'[c] = "idle"]_vars

\* C14 witness: Close of a SpooledWriteCloser has returned and a caller
\* whose job was dropped still waits, while another call got its result.
C14_Witness ==
    /\ kind = "spooled"
    /\ closePc = "closed"
    /\ \E c \in Callers : Dropped(c) /\ outcome[callId[c]].via = "none"
    /\ \E i \in CallIds : outcome[i].via = "result"

\* Close of a TimedWriteCloser waits in jobsDone.Wait() while the worker is
\* inside the underlying write of a call that has returned a timeout.
ClosingOverTimedOutWrite ==
    /\ kind = "timedW"
    /\ closePc = "wait"
    /\ workerPc = "io"
    /\ outcome[workerJob.id].via = "timeout"

\* C15 as stated: after a Write of a TimedWriteCloser returned a timeout
\* with its underlying write still running, Close goes on without waiting
\* for that write to finish.
C15_Original == ClosingOverTimedOutWrite => CloseMayProceed

\* C15 amended: after a Write of a TimedWriteCloser returned a timeout with
\* its underlying write still running, Close waits for the worker: as long
\* as that write runs Close stays in its wait, it has not marked the
\* instance halted, has not closed the underlying endpoint and has not
\* returned.
C15_CloseWaitsForRunningWrite ==
    [][ClosingOverTimedOutWrite =>
          /\ closePc' = "wait"
          /\ ~halted'
          /\ underCloses' = 0
          /\ workerPc' = "io" \/ produced'[workerJob.id] # NoResult]_vars

\* C15 witness: Close was called after the only Write returned a timeout,
\* and the worker is still inside that Write's underlying write.
C15_Witness ==
    /\ ClosingOverTimedOutWrite
    /\ workerJob.id = 1
    /\ jobs = <<>>
    /\ \A c \in Callers : callPc[c] = "idle"

\* The goroutines that are inside bufio.Writer code of the instance: the
\* worker in bw.Write for a job or in bw.Flush for a tick, a client in
\* Flush, Close in its final Flush.
InBuffer ==
    {g \in {"worker", "flusher", "closer"} :
        \/ g = "worker" /\ workerPc \in {"io", "tickio"}
        \/ g = "flusher" /\ flushPc = "io"
        \/ g = "closer" /\ closePc = "flushio"}

\* C16: within one SpooledWriteCloser at most one goroutine at a time works
\* on the buffer or writes to the underlying endpoint, and it is the one
\* that holds bwLock: the worker's writes, the tick's flushes, explicit
\* Flush calls and the final flush of Close exclude each other.
C16_BufferNeverShared ==
    kind = "spooled" =>
        /\ Cardinality(InBuffer) <= 1
        /\ InBuffer = IF bwLock = "none" THEN {} ELSE {bwLock}

\* C16 witness: the worker writes a job into the buffer while a client's
\* Flush waits for the lock and another Write waits for its result; and
\* the underlying endpoint has already received bytes.
C16_Witness ==
    /\ kind = "spooled"
    /\ InBuffer = {"worker"}
    /\ workerPc = "io"
    /\ flushPc = "lock"
    /\ underOut # <<>>

\* C17: in one Write or WriteSeries every endpoint of the slice the call
\* ranges over is issued exactly one write, with the full data, whether or
\* not other members fail, and no other endpoint is written to; when the
\* call returns, every member it did not find failing has taken all the
\* bytes.
C17_EveryMemberWrittenOnce ==
    /\ \A t \in Threads : \A e \in Endpoints :
           /\ Len(fwrites[t][e]) =
                  IF fpc[t] \in {"writing", "evict"} /\ e \in Range(fsnap[t]) \ fpending[t]
                    THEN 1 ELSE 0
           /\ \A k \in 1..Len(fwrites[t][e]) : fwrites[t][e][k].len = fop[t].len
    /\ fanLast.op \in WriteOps =>
           \A e \in Endpoints :
               /\ Len(fanLast.issued[e]) = IF e \in fanLast.snap THEN 1 ELSE 0
               /\ e \in fanLast.snap => fanLast.issued[e][1].len = fanLast.len
               /\ e \in fanLast.snap \ fanLast.errored =>
                      fanLast.issued[e][1].n = fanLast.len

\* C17 witness: a Write of two bytes to three members has returned; one
\* member took one byte only and was found failing, another took both.
C17_Witness ==
    /\ fanLast.op = "Write"
    /\ fanLast.len = 2
    /\ Cardinality(fanLast.snap) = 3
    /\ \E e \in fanLast.errored : fanLast.issued[e] = <<[len |-> 2, n |-> 1]>>
    /\ \E e \in fanLast.snap \ fanLast.errored : fanLast.issued[e] = <<[len |-> 2, n |-> 2]>>

\* C18: after construction and after every Add, Remove, Write and
\* WriteSeries the slice iows holds exactly the members of the writer set,
\* each once; Add puts its writer into the set and changes nothing when it
\* is there already, Remove takes its writer out, a Write takes out what
\* it found failing; and IsEmpty returns true exactly when the set is
\* empty.
C18_SnapshotIsWriterSet ==
    /\ Range(iows) = writers
    /\ Len(iows) = Cardinality(writers)
    /\ fanLast.op = "Add" => writers = fanLast.before \cup {fanLast.w}
    /\ fanLast.op = "Remove" => writers = fanLast.before \ {fanLast.w}
    /\ fanLast.op \in WriteOps => writers = fanLast.before \ fanLast.errored
    /\ fanLast.op = "IsEmpty" =>
           /\ writers = fanLast.before
           /\ fanLast.ret.n = 1 <=> writers = {}

\* C18 witness: Add of a writer that was a member already has returned,
\* the third call on an instance that holds two members.
C18_Witness ==
    /\ fanLast.op = "Add"
    /\ fanLast.w \in fanLast.before
    /\ Len(iows) = 2
    /\ fanOps = 3

\* C19: Close of a MultiWriteCloser invokes Close once on every member of
\* iows, on those after a failing one too; it returns nil exactly when no
\* member's Close failed, and otherwise one error that holds the close
\* error of every failing member, each once.
C19_CloseClosesAllAndAggregates ==
    fanLast.op = "Close" =>
        /\ fanLast.snap = writers
        /\ \A e \in Endpoints :
               epCloses[e] = fanLast.closes0[e] + (IF e \in fanLast.snap THEN 1 ELSE 0)
        /\ fanLast.ret.err = NilErr <=> fanLast.failed = {}
        /\ fanLast.failed # {} =>
               /\ fanLast.ret.err.tag = "ErrList"
               /\ Range(fanLast.ret.err.errs) = {CloseErrOf(e) : e \in fanLast.failed}
               /\ Len(fanLast.ret.err.errs) = Cardinality(fanLast.failed)

\* C19 witness: Close has returned on three members; the Close of two of
\* them failed, the first of the slice among them, and the third member
\* was closed too.
C19_Witness ==
    /\ fanLast.op = "Close"
    /\ Len(iows) = 3
    /\ Cardinality(fanLast.failed) = 2
    /\ iows[1] \in fanLast.failed
    /\ \A e \in Range(iows) : epCloses[e] = 1
    /\ Len(fanLast.ret.err.errs) = 2

\* C20: once Close has been called on every handle of a writeCloseDuper
\* group, the underlying endpoint's Close is eventually invoked, the
\* goroutines of the group being scheduled fairly (unless a further handle
\* is made before that, which is then a handle not yet closed).
C20_AllClosedLeadsToUnderlyingClose ==
    AllHandlesClosed ~> (dUnderCloses >= 1 \/ ~AllHandlesClosed)

\* C20 witness: three handles were issued, Close was called on each, a
\* Write had gone through one of them or not, and the underlying endpoint
\* has been closed.
C20_Witness ==
    /\ Cardinality(dIssued) = MaxHandles
    /\ AllHandlesClosed
    /\ \A h \in dIssued : dWatch[h] = "done"
    /\ dGroupPc = "closed"
    /\ dUnderCloses = 1

\* C21: when Close of the last handle of a writeCloseDuper group not yet
\* closed has returned, the underlying endpoint has been closed, and while
\* a handle is not closed it is open: whenever no Close is in progress
\* (Close is one step, dm.done.Done()), the underlying endpoint is closed
\* exactly if every handle is.
C21_ClosedWhenLastCloseReturns ==
    (dGroupPc # "none" /\ ~dMisuse) =>
        (AllHandlesClosed <=> dUnderCloses >= 1)

\* The underlying writes of the Write call c, in order.
CallWrites(c) == SelectSeq(dOut, LAMBDA e : e.call = c)

\* The bytes the writes of the sequence es took in all.
BytesOf(es) ==
    LET F[k \in 0..Len(es)] == IF k = 0 THEN 0 ELSE F[k - 1] + es[k].n
    IN F[Len(es)]

\* C22: the underlying writes of one Write call of a handle start at the
\* beginning of the data and each one starts where the one before ended
\* (no gap, no byte again); after a write that answered an error the call
\* issues no other; and the call returns the bytes its writes took in all
\* with the error of the last one: (len(data), nil) when no write answered
\* an error, however short the writes were.
C22_WriteDrainsOrStopsAtError ==
    /\ [](\A c \in 1..dWrites :
             LET es == CallWrites(c)
             IN \A k \in 1..Len(es) :
                    /\ es[k].off = BytesOf(SubSeq(es, 1, k - 1))
                    /\ es[k].off < DupDataLen
                    /\ k < Len(es) => es[k].err = NilErr)
    /\ [][\A dm \in Handles :
             (dWpc[dm] = "loop" /\ dWpc'[dm] = "idle") =>
                 LET es == CallWrites(dCall[dm])
                     last == IF es = <<>> THEN NilErr ELSE es[Len(es)].err
                 IN /\ dRet'[dm] = Result(BytesOf(es), last)
                    /\ last = NilErr => dRet'[dm] = Result(DupDataLen, NilErr)]_vars

\* C22 witness: a Write has returned (len(data), nil) after two short
\* underlying writes, and another Write has stopped at an error after a
\* first short write.
C22_Witness ==
    /\ \E dm \in dIssued : dRet[dm] = Result(DupDataLen, NilErr)
    /\ \E c \in 1..dWrites :
           /\ Len(CallWrites(c)) = DupDataLen
           /\ \A k \in 1..DupDataLen : CallWrites(c)[k] = [call |-> c, off |-> k - 1,
                                                            n |-> 1, err |-> NilErr]
    /\ \E c \in 1..dWrites :
           /\ Len(CallWrites(c)) = 2
           /\ CallWrites(c)[2].err = EIO
           /\ \E dm \in dIssued : dRet[dm].err = EIO /\ dRet[dm].n \in {1, 2}

\* The fewest writes the worker's bw.Write of the job at hand issues to the
\* underlying endpoint, whatever the endpoint answers.
MinUnderCalls ==
    CHOOSE m \in 0..3 :
        /\ \E behs \in BehSeqs :
               BwWrite(CurBw, workerJob.data, 0, bufferSize, behs).calls = m
        /\ \A behs \in BehSeqs :
               BwWrite(CurBw, workerJob.data, 0, bufferSize, behs).calls >= m

\* C23 as stated: the worker's bw.Write of a job of at least bufferSize
\* bytes, of exactly bufferSize bytes too, issues a write to the underlying
\* endpoint.
C23_Original ==
    (kind = "spooled" /\ workerPc = "io" /\ Len(workerJob.data) >= bufferSize) =>
        MinUnderCalls >= 1

\* C23 amended: the worker's bw.Write of a job issues a write to the
\* underlying endpoint, within the Write call and with no tick and no Flush,
\* when the job has more bytes than the buffer has free and no earlier
\* write to the endpoint has failed; it issues none when the job fits,
\* bufferSize bytes into an empty buffer included, or when an earlier write
\* has failed.
C23_FlushWhenBufferExceeded ==
    (kind = "spooled" /\ workerPc = "io") =>
        IF Len(workerJob.data) > bufferSize - Len(buf) /\ bwErr = NilErr
          THEN MinUnderCalls >= 1
          ELSE \A behs \in BehSeqs :
                   BwWrite(CurBw, workerJob.data, 0, bufferSize, behs).calls = 0

\* C23 witness: the second Write, of exactly bufferSize bytes, found one
\* byte in the buffer; the worker's bw.Write has filled the buffer, written
\* it to the underlying endpoint and kept the rest, and the Write has not
\* returned yet.
C23_Witness ==
    /\ kind = "spooled"
    /\ workerPc = "publish"
    /\ workerJob.id = 2
    /\ Len(workerJob.data) = bufferSize
    /\ underOut = <<1, 2>>
    /\ buf = <<2>>

\* The step in which a client's Flush returns nil: bw.Flush() returns the
\* error the bufio.Writer then holds.
FlushReturnsNil == flushPc = "io" /\ flushPc' = "idle" /\ bwErr' = NilErr

\* C24: when a client's Flush of a SpooledWriteCloser returns nil, the
\* buffer is empty and the underlying endpoint has received every byte of
\* the Writes that have returned, in their order, whether or not a tick
\* has occurred; with one caller at a time it has received nothing else.
C24_FlushForcesBytesWritten ==
    [][FlushReturnsNil =>
          /\ buf' = <<>>
          /\ Len(okData') <= Len(underOut')
          /\ SubSeq(underOut', 1, Len(okData')) = okData'
          /\ mode = "seq" => underOut' = okData']_vars

\* C24 witness: a Flush has returned with Close not called, and the
\* underlying endpoint holds the one byte, less than the buffer size, of
\* the Write that returned before.
C24_Witness ==
    /\ kind = "spooled"
    /\ mode = "seq"
    /\ closePc = "idle"
    /\ flushN = 1 /\ flushPc = "idle"
    /\ bwErr = NilErr
    /\ buf = <<>>
    /\ Len(okData) = 1
    /\ underOut = okData

\* C25: Close of a SpooledWriteCloser invokes the underlying endpoint's
\* Close, once, also when its final flush has failed, and returns the
\* error of that Close when there is one, the error of the final flush
\* otherwise, nil when there is neither.
C25_CloseReturnsCloseErrorFirst ==
    (kind = "spooled" /\ closePc = "closed") =>
        /\ underCloses = 1
        /\ closeErr2 # NilErr => closeRet = closeErr2
        /\ closeErr2 = NilErr => closeRet = closeErr1
        /\ closeRet = NilErr <=> (closeErr1 = NilErr /\ closeErr2 = NilErr)

\* C25 witness: Close has returned after both its final flush and the
\* underlying Close failed.
C25_Witness ==
    /\ kind = "spooled"
    /\ closePc = "closed"
    /\ underCloses = 1
    /\ closeErr1 \in {EIO, ErrShortWrite}
    /\ closeErr2 = ECLOSE
    /\ closeRet = ECLOSE

\* C26: NewTimedWriteCloser and NewTimedReadCloser panic exactly when the
\* timeout is <= 0; then no instance exists: no worker has been started,
\* the wait group was not touched, and no Read, Write or Close on it ever
\* begins.  An instance that exists has a timeout > 0.
C26_BadTimeoutPanics ==
    /\ [](kind \in TimedKinds =>
             /\ inst = "panic" =>
                    /\ workerPc = "none" /\ jobsDone = 0 /\ timeout = 0
                    /\ nextId = 1 /\ closePc = "idle"
                    /\ \A c \in Callers : callPc[c] = "idle"
             /\ inst = "live" => timeout > 0 /\ workerPc # "none")
    /\ [][\A d \in Timeouts : NewTimed(d) => (inst' = "panic" <=> d <= 0)]_vars
    /\ [][(kind \in TimedKinds /\ inst = "panic") => UNCHANGED vars]_vars

\* C26 witness: the constructor of a TimedReadCloser has panicked.
C26_Witness ==
    /\ kind = "timedR"
    /\ inst = "panic"

InitCtor == DecoOff /\ DuperOff /\ FanOff /\ LockOff /\ ShortOff /\ CtorCalled

SpecCtor == InitCtor /\ [][NextCtor]_vars

\* The last value the setters named o of ctorOpts set, or else dflt.
LastSet(o, dflt) ==
    LET ks == {k \in 1..Len(ctorOpts) : ctorOpts[k].opt = o}
    IN IF ks = {} THEN dflt
       ELSE ctorOpts[CHOOSE k \in ks : \A j \in ks : j <= k].v

\* C27: NewSpooledWriteCloser given a BufSize or a Flush setter with a
\* value <= 0 returns an error and no instance and starts no worker;
\* otherwise it returns an instance, with its worker started, whose buffer
\* size and flush period are the values set last, 4096 and 15 seconds
\* where none was set.
C27_BadSetterIsConfigError ==
    ctorPc = "done" =>
        IF \E k \in 1..Len(ctorOpts) : ctorOpts[k].v <= 0
          THEN ctorRes.err # NilErr /\ ~ctorRes.returned /\ ~ctorRes.worker
          ELSE /\ ctorRes.err = NilErr /\ ctorRes.returned /\ ctorRes.worker
               /\ ctorRes.bufferSize = LastSet("BufSize", 4096)
               /\ ctorRes.flushPeriod = LastSet("Flush", 15)

\* C27 witness: a call with a good BufSize and then a Flush of 0 has
\* returned.
C27_Witness ==
    /\ ctorPc = "done"
    /\ ctorOpts = <<[opt |-> "BufSize", v |-> 2], [opt |-> "Flush", v |-> 0]>>
    /\ ctorRes.err = ECONFIG

\* The step in which the Remove of thread t returns.
RemoveReturns(t) == fpc[t] = "in" /\ fop[t].op = "Remove" /\ fpc'[t] = "idle"

\* The step in which the call of thread t issues a write to the endpoint e.
WriteIssued(t, e) == Len(fwrites'[t][e]) > Len(fwrites[t][e])

\* The claim of C28 as it was made: a Remove of an endpoint that is not a
\* member leaves the writer set and the slice iows as they were.
C28_Original ==
    [][\A t \in Threads :
           (RemoveReturns(t) /\ fop[t].w \notin writers) =>
               (writers' = writers /\ iows' = iows)]_vars

\* C28: when Remove(w) returns w is neither in the writer set nor in
\* iows and every other member is in both; an endpoint enters the writer
\* set only by an Add of it; a write is issued only to members of the
\* writer set, and a Write or WriteSeries that returns has issued a write
\* to every endpoint that was a member; so after Remove(w), until w is
\* added again, no write goes to w and every remaining member receives
\* each write.  A Remove of an endpoint that is not a member leaves the
\* writer set as it was and iows with the same members, each once; their
\* order may be another, since update() makes the slice anew by ranging
\* over the map.
C28_RemovedReceivesNoWrite ==
    /\ [](fanLast.op \in WriteOps =>
             {e \in Endpoints : fanLast.issued[e] # <<>>} = fanLast.before)
    /\ [][/\ \A t \in Threads :
                 /\ RemoveReturns(t) =>
                        /\ writers' = writers \ {fop[t].w}
                        /\ Range(iows') = writers'
                        /\ Len(iows') = Cardinality(writers')
                 /\ (RemoveReturns(t) /\ fop[t].w \notin writers) =>
                        /\ writers' = writers
                        /\ Range(iows') = Range(iows)
                        /\ Len(iows') = Len(iows)
                 /\ \A e \in Endpoints : WriteIssued(t, e) => e \in writers
          /\ \A e \in Endpoints :
                 (e \notin writers /\ e \in writers') =>
                     \E t \in Threads : fop[t].op = "Add" /\ fop[t].w = e]_vars

\* C28 witness: a Remove of an endpoint that was not a member has
\* returned, on an instance that holds two members.
C28_Witness ==
    /\ fanLast.op = "Remove"
    /\ fanLast.w \notin fanLast.before
    /\ Len(iows) = 2
    /\ fanOps >= 2

InitLock ==
    /\ DecoOff
    /\ DuperOff
    /\ FanOff
    /\ CtorOff
    /\ ShortOff
    /\ \E k \in {"writer", "writeCloser"} : NewLocking(k)

SpecLock == InitLock /\ [][NextLock]_vars

\* C29: a goroutine that is inside the underlying endpoint's Write or
\* Close holds the lock, so at most one call into the endpoint is in
\* progress at any time: no two underlying Writes overlap, and the
\* underlying Close of a LockingWriteCloser overlaps no underlying Write.
C29_OneCallIntoEndpoint ==
    /\ \A g \in InUnder : lwLock = g
    /\ Cardinality(InUnder) <= 1
    /\ \A g, h \in InUnder : (lwOp[g] = "Close" /\ lwOp[h] = "Write") => g = h

\* C29 witness: on a LockingWriteCloser one goroutine is inside the
\* endpoint's Close while a second and a third have called Write and Close
\* and wait for the lock.
C29_Witness ==
    /\ lwKind = "writeCloser"
    /\ \E g, h, i \in LockCallers :
           /\ lwPc[g] = "io" /\ lwOp[g] = "Close"
           /\ lwPc[h] = "lock" /\ lwOp[h] = "Write"
           /\ lwPc[i] = "lock" /\ lwOp[i] = "Close"

InitShort == DecoOff /\ DuperOff /\ FanOff /\ CtorOff /\ LockOff /\ ShortCalled

SpecShort == InitShort /\ [][NextShort]_vars

\* C30: a Write of data no longer than max hands all of data to w and
\* returns what w.Write(data) returns, (len(data), nil) when w takes it
\* all; a Write of data longer than max hands the first max bytes to w
\* and returns (max, io.ErrShortWrite) when w takes them.
C30_ShortWriteOnlyBeyondLimit ==
    swPc = "done" =>
        /\ swRes.handed = ShortIndex(swArgs.len, swArgs.max)
        /\ swArgs.len <= swArgs.max =>
               /\ swRes.ret = ShortUnderWrite(swArgs.under, swArgs.len)
               /\ swArgs.under = "all" => swRes.ret = Result(swArgs.len, NilErr)
        /\ (swArgs.len > swArgs.max /\ swArgs.under = "all") =>
               swRes.ret = Result(swArgs.max, ErrShortWrite)

\* The job of call i is in the jobs channel or in the worker's hands.
InFlight(i) == (\E k \in 1..Len(jobs) : jobs[k].id = i) \/ workerJob.id = i

\* C31: a job the jobs channel took leaves the channel and the worker only
\* by being executed: it goes from the channel to the worker, and from the
\* worker nowhere but into a published result, while the worker has not
\* retired and the underlying endpoint is not closed; the worker retires,
\* and the endpoint is closed, only when no job is left.  So Close, which
\* closes the channel over jobs still in it, discards none of them.
C31_CloseDiscardsNoAcceptedJob ==
    /\ []((workerPc = "done" \/ underCloses >= 1) =>
             (workerPc = "done" /\ \A i \in CallIds : ~InFlight(i)))
    /\ [][\A i \in CallIds :
              (InFlight(i) /\ ~InFlight(i)') =>
                  /\ workerJob.id = i
                  /\ produced'[i] \in UnderResults(Len(workerJob.data))
                  /\ results'[i] = <<Published(i, produced'[i])>>
                  /\ workerPc' = "recv"
                  /\ underCloses' = 0]_vars

\* C31 witness: Close has closed the jobs channel and waits; the worker is
\* inside the underlying call of the first job and the second job is
\* still in the channel.
C31_Witness ==
    /\ jobsClosed
    /\ closePc = "wait"
    /\ workerPc = "io"
    /\ workerJob.id = 1
    /\ Len(jobs) = 1
    /\ jobs[1].id = 2

\* The jobs whose underlying call has returned.
Executed == {i \in CallIds : produced[i] # NoResult}

\* C32: the underlying calls the worker has started are as many as the
\* jobs executed or in execution, so no job is executed twice; a job's
\* result, once obtained, never changes and is written to the job's own
\* results channel in the step that obtains it, to no channel otherwise,
\* so each job has exactly one Result; and the step in which a caller
\* returns a timeout leaves the channel, the worker and the running
\* underlying call as they are: the job is abandoned, not cancelled.
C32_TimeoutAbandonsNotCancels ==
    /\ [](underIO = Cardinality(Executed) + (IF workerPc = "io" THEN 1 ELSE 0))
    /\ [][\A i \in CallIds :
              /\ produced[i] # NoResult => produced'[i] = produced[i]
              /\ (produced[i] = NoResult /\ produced'[i] # NoResult) =>
                     /\ workerPc = "io" /\ workerJob.id = i
                     /\ results'[i] = <<Published(i, produced'[i])>>
              /\ Len(results'[i]) > Len(results[i]) =>
                     produced[i] = NoResult /\ workerJob.id = i
              /\ (outcome[i].via = "none" /\ outcome'[i].via = "timeout") =>
                     /\ UNCHANGED <<jobs, workerPc, workerJob, underIO, produced, results>>
                     /\ outcome'[i].res = TimeoutResult]_vars

\* C32 witness: the first call returned a timeout while its job was in the
\* worker; the underlying call went on and its one result lies on the
\* abandoned channel, and the worker is in the second job's call.
C32_Witness ==
    /\ outcome[1].via = "timeout"
    /\ produced[1] # NoResult
    /\ results[1] = <<Published(1, produced[1])>>
    /\ workerPc = "io"
    /\ workerJob.id = 2
    /\ underIO = 2

\* The endpoints a write of the call of thread t is outstanding on.
Outstanding(t) == IF fpc[t] = "writing" THEN fpending[t] ELSE {}

\* C33: with one Write at a time, the call leaves its join only when none
\* of its per-endpoint writes is outstanding, every endpoint of its slice
\* then having answered once; a call begins only when no write of an
\* earlier call is outstanding, and a write is issued only by the one call
\* in progress.  So on every endpoint the writes do not overlap and come
\* in the order of the Write calls.
C33_WritesJoinedBeforeReturn ==
    /\ [](/\ Cardinality({t \in Threads : fpc[t] # "idle"}) <= 1
          /\ \A t \in Threads : fpc[t] \in {"idle", "in", "evict"} => fpending[t] = {})
    /\ [][\A t \in Threads :
              /\ (fpc[t] = "writing" /\ fpc'[t] # "writing") =>
                     /\ Outstanding(t) = {}
                     /\ \A e \in Range(fsnap[t]) : Len(fwrites[t][e]) = 1
              /\ (fpc[t] = "idle" /\ fpc'[t] # "idle") =>
                     \A u \in Threads : Outstanding(u) = {}
              /\ \A e \in Endpoints :
                     WriteIssued(t, e) =>
                         /\ e \in Outstanding(t)
                         /\ e \notin Outstanding(t)'
                         /\ \A u \in Threads \ {t} : fpc[u] = "idle"]_vars

\* C33 witness: the third Write on three members is under way: one
\* endpoint has answered it, two writes are outstanding, and the two
\* calls before it have returned.
C33_Witness ==
    /\ fanOps = 3
    /\ \E t \in Threads :
           /\ fpc[t] = "writing"
           /\ fop[t].op = "Write"
           /\ Len(fsnap[t]) = 3
           /\ Cardinality(Outstanding(t)) = 2

\* What a call that has returned did, as its caller and the endpoints can
\* tell: its return value, the members it evicted, the Close calls it
\* made, the writes it issued and the writer set it left.
FanEffect ==
    [ret |-> fanLast.ret,
     evicted |-> fanLast.before \ writers,
     closes |-> [e \in Endpoints |-> epCloses[e] - fanLast.closes0[e]],
     issued |-> [e \in Endpoints |-> [k \in 1..Len(fanLast.issued[e]) |->
                                         fanLast.issued[e][k].len]],
     writers |-> writers,
     snapshot |-> Range(iows)]

\* What writing len bytes to the members before does when those in failed
\* answer with an error or a short count; nothing in it depends on
\* whether the writes are issued at once or one after the other.
FanWriteEffect(before, len, failed) ==
    [ret |-> Result(len, NilErr),
     evicted |-> failed,
     closes |-> [e \in Endpoints |-> IF e \in failed THEN 1 ELSE 0],
     issued |-> [e \in Endpoints |-> IF e \in before THEN <<len>> ELSE <<>>],
     writers |-> before \ failed,
     snapshot |-> before \ failed]

\* C34: a Write and a WriteSeries that start from the same writer set and
\* get the same answers from the endpoints have the same effect: the same
\* return value, the same members evicted, the same Close calls on
\* members, the same data handed to every member, the same writer set
\* left.
C34_WriteAndSeriesEquivalent ==
    fanLast.op \in WriteOps =>
        /\ fanLast.failed \subseteq fanLast.before
        /\ FanEffect = FanWriteEffect(fanLast.before, fanLast.len, fanLast.failed)

\* C34 witness: a WriteSeries of two bytes to three members has returned;
\* two of them failed and were evicted and closed, the third is kept.
C34_Witness ==
    /\ fanLast.op = "WriteSeries"
    /\ fanLast.len = 2
    /\ Cardinality(fanLast.before) = 3
    /\ Cardinality(fanLast.failed) = 2
    /\ Cardinality(writers) = 1

\* C35: when the underlying call of a job returns, the job's results
\* channel is empty, so the worker's send goes through at once, whether
\* or not the job's caller has left with a timeout; and a Close that has
\* closed the jobs channel returns.
C35_CloseReturns ==
    /\ [](workerPc = "io" => Room(results[PublishTo(workerJob)]))
    /\ (closePc = "wait") ~> (closePc = "closed")

\* C35 witness: Close has returned after two calls timed out whose results
\* lie unread on their channels.
C35_Witness ==
    /\ kind \in TimedKinds
    /\ closePc = "closed"
    /\ \E i, j \in CallIds :
           /\ i # j
           /\ outcome[i].via = "timeout" /\ results[i] # <<>>
           /\ outcome[j].via = "timeout" /\ results[j] # <<>>

\* C36: whenever halted is true the jobs channel is closed, the worker has
\* left its loop and the wait group is at zero; halted, once true, stays
\* true, and from then on nothing enters the jobs channel and the worker
\* takes up no job.
C36_HaltedMeansWorkerGone ==
    /\ [](halted => (jobsClosed /\ workerPc = "done" /\ jobsDone = 0 /\ jobs = <<>>))
    /\ [][halted =>
              /\ halted'
              /\ jobs' = jobs
              /\ workerPc' = workerPc
              /\ underIO' = underIO
              /\ produced' = produced]_vars

\* C36 witness: Close of a SpooledWriteCloser has set halted and is on its
\* way to the final flush, while a caller that passed the halted check
\* before is about to send its job.
C36_Witness ==
    /\ kind = "spooled"
    /\ halted
    /\ closePc = "flushlock"
    /\ \E c \in Callers : callPc[c] = "send"

\* C37: the underlying calls started exceed those that have returned by
\* one at most, and by one only while the worker is in a call; the worker
\* takes a job only when it holds none, and it takes the one at the head
\* of the jobs channel, while an accepted job goes to the channel's tail:
\* jobs are executed one at a time in the order of their acceptance,
\* whatever their callers have returned meanwhile.
C37_OneCallAtATimeInOrder ==
    /\ [](/\ underIO - Cardinality(Executed) \in {0, 1}
          /\ underIO - Cardinality(Executed) = 1 <=> workerPc = "io"
          /\ workerPc = "io" <=> workerJob # NoJob)
    /\ [][/\ underIO' # underIO =>
                 /\ underIO' = underIO + 1
                 /\ workerJob = NoJob
                 /\ jobs # <<>>
                 /\ workerJob' = Head(jobs)
                 /\ jobs' = Tail(jobs)
          /\ jobs' # jobs =>
                 IF Len(jobs') < Len(jobs)
                   THEN jobs' = Tail(jobs) /\ workerJob' = Head(jobs)
                   ELSE \E c \in Callers :
                            /\ callPc[c] = "send"
                            /\ Len(jobs') = Len(jobs) + 1
                            /\ SubSeq(jobs', 1, Len(jobs)) = jobs
                            /\ jobs'[Len(jobs')].id = callId[c]]_vars

\* C37 witness: the first call has returned a timeout and its underlying
\* call still runs; the second job waits in the channel for it to end.
C37_Witness ==
    /\ workerPc = "io"
    /\ workerJob.id = 1
    /\ outcome[1].via = "timeout"
    /\ Len(jobs) = 1
    /\ jobs[1].id = 2
    /\ underIO = 1

\* C38: no call sends on the jobs channel after close(w.jobs): a call
\* that runs while Close runs has its job accepted, times out or returns
\* the used-after-close error, and never panics.
C38_NoSendOnClosedChannel ==
    /\ \A c \in Callers : callPc[c] # "panic"
    /\ \A i \in CallIds : outcome[i].via \in {"none", "result", "timeout", "afterclose"}

\* C39: the MultiWriteCloser invokes Close on an endpoint only while the
\* endpoint is a member, once, so a member that fails under concurrent
\* Writes is closed once and not again by a second Write that found it
\* failing too.
C39_FailedMemberClosedOnce ==
    [][\A e \in Endpoints :
           epCloses'[e] # epCloses[e] =>
               (e \in writers /\ epCloses'[e] = epCloses[e] + 1)]_vars

\* C40: in a writeCloseDuper group where Dup is only called on handles not
\* yet closed, whatever the interleaving of Write, Dup and Close across the
\* handles, a Write that reaches the underlying endpoint after its Close
\* has been invoked comes through a handle whose own Close was called
\* before: when no handle is written to after its own Close, the endpoint
\* receives no Write after its Close.
C40_NoWriteAfterUnderlyingClose ==
    [][(~dMisuse /\ dUnderCloses >= 1 /\ Len(dOut') > Len(dOut)) =>
           /\ dLock \in dIssued
           /\ dClosed[dLock]
           /\ dWpc[dLock] = "loop"]_vars
      /\ []((~dMisuse /\ dLateWrite) => \E d \in dIssued : dClosed[d])

C40_Witness ==
    /\ ~dMisuse
    /\ ~dLateCall
    /\ ~dLateWrite
    /\ dUnderCloses = 1
    /\ Cardinality(dIssued) >= 2
    /\ Cardinality({dOut[k].call : k \in 1..Len(dOut)}) >= 2

Init == InitDeco \/ InitDuper \/ InitFan \/ InitLockFan \/ InitCtor \/ InitLock
           \/ InitShort
Next == NextDeco \/ NextDuper \/ NextFan \/ NextCtor \/ NextLock \/ NextShort
Spec == Init /\ [][Next]_vars
====
